---- MODULE Spec2Model ----
(***************************************************************************)
(* Verification model of mcampa/ai-context: the collection registry, the   *)
(* local SQLite-style vector store with its BM25 companion model, the      *)
(* file synchronizer and the indexing pipeline.                            *)
(***************************************************************************)
EXTENDS Integers, Sequences, FiniteSets, TLC

(***************************************************************************)
(* Generic helpers for JavaScript Map / Array values.                      *)
(***************************************************************************)

\* Map.set(k, v): JavaScript Map modelled as a function on its key set.
MapSet(m, k, v) == [x \in (DOMAIN m) \cup {k} |-> IF x = k THEN v ELSE m[x]]

\* Map.delete(k)
MapDelete(m, k) == [x \in (DOMAIN m) \ {k} |-> m[x]]

\* new Map()
EmptyMap == << >>

\* The set of elements of an array.
Range(s) == {s[i] : i \in 1..Len(s)}

\* Array.prototype.filter with the predicate "element # x".
RECURSIVE FilterOut(_, _)
FilterOut(s, x) ==
  IF s = << >> THEN << >>
  ELSE IF Head(s) = x THEN FilterOut(Tail(s), x)
       ELSE <<Head(s)>> \o FilterOut(Tail(s), x)

(***************************************************************************)
(* Bounds of the registry model.                                           *)
(***************************************************************************)

\* Codebase paths handed to the registry.
CodebasePaths == {"/p1", "/p2"}

\* Progress percentages reported while indexing.
ProgressValues == {0, 50, 100}

\* Statistics handed to setCodebaseIndexed.
IndexStats ==
  { [indexedFiles |-> f, totalChunks |-> 100, status |-> s] :
      f \in {10, 11}, s \in {"completed", "limit_reached"} }

\* Error messages handed to setCodebaseIndexFailed.
ErrorMessages == {"Network error"}

VARIABLES
  indexedCodebases,    \* FakeSnapshotManager.indexedCodebases : string[]
  indexingCodebases,   \* FakeSnapshotManager.indexingCodebases : Map<string, number>
  codebaseFileCount,   \* FakeSnapshotManager.codebaseFileCount : Map<string, number>
  codebaseInfoMap,     \* FakeSnapshotManager.codebaseInfoMap : Map<string, CodebaseInfo>
  registryDisk,        \* the registry file: the codebases map last written
  lastReg              \* the registry operation that returned last

regVars == <<indexedCodebases, indexingCodebases, codebaseFileCount,
             codebaseInfoMap, registryDisk, lastReg>>

VARIABLES
  dbFiles,          \* storageDir: collection name -> the tables of {name}.db
  bm25Files,        \* storageDir: collection name -> content of {name}_bm25.json
  clients,          \* LibSQLVectorDatabase.clients (the names with an open client)
  metadataCache,    \* LibSQLVectorDatabase.metadataCache
  bm25Generators,   \* LibSQLVectorDatabase.bm25Generators
  lastStore         \* the store operation that returned last, with its outcome

storeVars == <<dbFiles, bm25Files, clients, metadataCache, bm25Generators,
               lastStore>>

VARIABLES
  faissCollections,  \* FaissVectorDatabase.collections
  lastFaiss          \* the FAISS store operation that returned last

faissVars == <<faissCollections, lastFaiss>>

VARIABLES
  fsTree,         \* the files under the codebase root: relative path -> content
  snapshotFiles,  \* the snapshot directory: root -> the hashes last persisted
  synchronizers,  \* the live synchronizers: root -> the in-memory snapshot
  lastCheck,      \* the synchronizer call that returned last, with its result
  changed,        \* has the tree changed since the snapshot in memory / on disk
                  \* was taken from it
  baseline        \* the tree as it was when the snapshot in memory / on disk
                  \* was taken from it

syncVars == <<fsTree, snapshotFiles, synchronizers, lastCheck, changed, baseline>>

VARIABLES
  run,            \* the index or reindex under way, or the last one finished
  clearing,       \* a clear_index is under way
  lastSearch      \* the search of a codebase that returned last, with its outcome

pipeVars == <<run, clearing, lastSearch>>

VARIABLES
  simpleBM25,     \* a SimpleBM25 used on its own
  lastBM25        \* the call on it that returned last, with its outcome

genVars == <<simpleBM25, lastBM25>>

VARIABLES
  qdrantCollections,  \* the Qdrant server: collection name -> its points
  qdrantModelFiles,   \* ~/.context/bm25: collection name -> content of {name}.json
  bm25Generator,      \* QdrantVectorDatabase.bm25Generator
  lastQdrant          \* the Qdrant store operation that returned last

qdrantVars == <<qdrantCollections, qdrantModelFiles, bm25Generator, lastQdrant>>

VARIABLES
  bm25Path,       \* the bytes of one {name}_bm25.json, or NoFile
  writeFileCall,      \* the fs.writeFile call of saveBM25 under way, or Idle
  lastRead        \* what the last readFile of the model file returned

fileVars == <<bm25Path, writeFileCall, lastRead>>

VARIABLES
  maxRetries,     \* GeminiEmbedding.maxRetries
  baseDelay,      \* GeminiEmbedding.baseDelay, in milliseconds
  lastEmbed       \* the embed or embedBatch that returned last, with the calls
                  \* of the provider and the waits it made

embedVars == <<maxRetries, baseDelay, lastEmbed>>

VARIABLES
  loadedModel,    \* HuggingFaceEmbedding.model and tokenizer are set
  modelLoading,   \* HuggingFaceEmbedding.modelLoading: 0 for null, or the
                  \* number of the promise of loadModel it holds
  loadPromises,   \* the promises of the loadModel calls made so far
  requests        \* the embed, embedBatch and preload calls under way

hfVars == <<loadedModel, modelLoading, loadPromises, requests>>

VARIABLES
  initializationPromise,  \* BaseVectorDatabase.initializationPromise
  storageReady,           \* initialize() has done its work
  operations              \* the calls of the store's methods under way

baseVars == <<initializationPromise, storageReady, operations>>

VARIABLES
  nodes,          \* MerkleDAG.nodes: id -> node
  rootIds,        \* MerkleDAG.rootIds
  lastAdd         \* the addNode that returned last

dagVars == <<nodes, rootIds, lastAdd>>

\* The components a store, pipeline or embedding operation never touches.
asideVars == <<hfVars, baseVars, dagVars>>

vars == <<regVars, storeVars, faissVars, syncVars, pipeVars, genVars, qdrantVars,
          fileVars, embedVars, asideVars>>

\* What an operation of one component leaves alone: the other components.
exceptRegistry == <<storeVars, faissVars, syncVars, pipeVars, genVars, qdrantVars,
  fileVars, embedVars, asideVars>>
exceptStore == <<regVars, faissVars, syncVars, pipeVars, genVars, qdrantVars,
  fileVars, embedVars, asideVars>>
exceptFaiss == <<regVars, storeVars, syncVars, pipeVars, genVars, qdrantVars,
  fileVars, embedVars, asideVars>>
exceptSync == <<regVars, storeVars, faissVars, pipeVars, genVars, qdrantVars,
  fileVars, embedVars, asideVars>>
exceptPipeline == <<regVars, faissVars, genVars, qdrantVars,
  fileVars, embedVars, asideVars>>
exceptGenerator == <<regVars, storeVars, faissVars, syncVars, pipeVars, qdrantVars,
  fileVars, embedVars, asideVars>>
exceptQdrant == <<regVars, storeVars, faissVars, syncVars, pipeVars, genVars, fileVars,
  embedVars, asideVars>>
exceptFile == <<regVars, storeVars, faissVars, syncVars, pipeVars, genVars, qdrantVars,
  embedVars, asideVars>>
exceptEmbedding == <<regVars, storeVars, faissVars, syncVars, pipeVars, genVars,
  qdrantVars, fileVars, asideVars>>
exceptHuggingFace == <<regVars, storeVars, faissVars, syncVars, pipeVars, genVars,
  qdrantVars, fileVars, embedVars, baseVars, dagVars>>
exceptBase == <<regVars, storeVars, faissVars, syncVars, pipeVars, genVars,
  qdrantVars, fileVars, embedVars, hfVars, dagVars>>
exceptDAG == <<regVars, storeVars, faissVars, syncVars, pipeVars, genVars,
  qdrantVars, fileVars, embedVars, hfVars, baseVars>>

(***************************************************************************)
(* Registry reads.                                                         *)
(***************************************************************************)

\* A read that goes to the registry file instead of the in-memory list.
getIndexedCodebasesFromDisk ==
  {p \in DOMAIN registryDisk : registryDisk[p].status = "indexed"}

\* getIndexedCodebases(): a copy of the in-memory list.
getIndexedCodebases == Range(indexedCodebases)

\* getIndexingCodebases(): the keys of the in-memory indexing map.
getIndexingCodebases == DOMAIN indexingCodebases

\* JavaScript undefined, where an object is expected.
Undefined == [undefined |-> TRUE]

\* JavaScript undefined, where a number is expected (number | undefined).
UndefinedNumber == 0 - 1

\* getIndexingProgress(path)
getIndexingProgress(codebasePath) ==
  IF codebasePath \in DOMAIN indexingCodebases
    THEN indexingCodebases[codebasePath] ELSE UndefinedNumber

\* getCodebaseInfo(path)
getCodebaseInfo(codebasePath) ==
  IF codebasePath \in DOMAIN codebaseInfoMap
    THEN codebaseInfoMap[codebasePath] ELSE Undefined

\* getCodebaseStatus(path)
getCodebaseStatus(codebasePath) ==
  IF codebasePath \notin DOMAIN codebaseInfoMap THEN "not_found"
  ELSE codebaseInfoMap[codebasePath].status

\* getFailedCodebases()
getFailedCodebases ==
  {p \in DOMAIN codebaseInfoMap : codebaseInfoMap[p].status = "indexfailed"}

(***************************************************************************)
(* Registry mutations.  The wall-clock lastUpdated stamp of an entry is    *)
(* not part of the state.                                                  *)
(***************************************************************************)

RegInit ==
  /\ indexedCodebases = << >>
  /\ indexingCodebases = EmptyMap
  /\ codebaseFileCount = EmptyMap
  /\ codebaseInfoMap = EmptyMap
  /\ registryDisk = EmptyMap
  /\ lastReg = [op |-> "none"]

setCodebaseIndexing(codebasePath, progress) ==
  /\ indexingCodebases' = MapSet(indexingCodebases, codebasePath, progress)
  /\ indexedCodebases' = FilterOut(indexedCodebases, codebasePath)
  /\ codebaseFileCount' = MapDelete(codebaseFileCount, codebasePath)
  /\ codebaseInfoMap' = MapSet(codebaseInfoMap, codebasePath,
        [status |-> "indexing", indexingPercentage |-> progress])
  /\ lastReg' = [op |-> "setCodebaseIndexing", path |-> codebasePath,
                 progress |-> progress]
  /\ UNCHANGED registryDisk

\* A setCodebaseIndexed that leaves the path in the indexing map.
setCodebaseIndexedStillIndexing(codebasePath, stats) ==
  /\ indexedCodebases' =
       IF codebasePath \in Range(indexedCodebases) THEN indexedCodebases
       ELSE Append(indexedCodebases, codebasePath)
  /\ codebaseFileCount' = MapSet(codebaseFileCount, codebasePath, stats.indexedFiles)
  /\ codebaseInfoMap' = MapSet(codebaseInfoMap, codebasePath,
        [status |-> "indexed", indexedFiles |-> stats.indexedFiles,
         totalChunks |-> stats.totalChunks, indexStatus |-> stats.status])
  /\ lastReg' = [op |-> "setCodebaseIndexed", path |-> codebasePath,
                 stats |-> stats]
  /\ UNCHANGED <<indexingCodebases, registryDisk>>

setCodebaseIndexed(codebasePath, stats) ==
  /\ indexedCodebases' =
       IF codebasePath \in Range(indexedCodebases) THEN indexedCodebases
       ELSE Append(indexedCodebases, codebasePath)
  /\ indexingCodebases' = MapDelete(indexingCodebases, codebasePath)
  /\ codebaseFileCount' = MapSet(codebaseFileCount, codebasePath, stats.indexedFiles)
  /\ codebaseInfoMap' = MapSet(codebaseInfoMap, codebasePath,
        [status |-> "indexed", indexedFiles |-> stats.indexedFiles,
         totalChunks |-> stats.totalChunks, indexStatus |-> stats.status])
  /\ lastReg' = [op |-> "setCodebaseIndexed", path |-> codebasePath,
                 stats |-> stats]
  /\ UNCHANGED registryDisk

setCodebaseIndexFailed(codebasePath, errorMessage, lastAttemptedPercentage) ==
  /\ indexedCodebases' = FilterOut(indexedCodebases, codebasePath)
  /\ indexingCodebases' = MapDelete(indexingCodebases, codebasePath)
  /\ codebaseFileCount' = MapDelete(codebaseFileCount, codebasePath)
  /\ codebaseInfoMap' = MapSet(codebaseInfoMap, codebasePath,
        [status |-> "indexfailed", errorMessage |-> errorMessage,
         lastAttemptedPercentage |-> lastAttemptedPercentage])
  /\ lastReg' = [op |-> "setCodebaseIndexFailed", path |-> codebasePath,
                 errorMessage |-> errorMessage,
                 lastAttemptedPercentage |-> lastAttemptedPercentage]
  /\ UNCHANGED registryDisk

removeCodebaseCompletely(codebasePath) ==
  /\ indexedCodebases' = FilterOut(indexedCodebases, codebasePath)
  /\ indexingCodebases' = MapDelete(indexingCodebases, codebasePath)
  /\ codebaseFileCount' = MapDelete(codebaseFileCount, codebasePath)
  /\ codebaseInfoMap' = MapDelete(codebaseInfoMap, codebasePath)
  /\ lastReg' = [op |-> "removeCodebaseCompletely", path |-> codebasePath]
  /\ UNCHANGED registryDisk

removeIndexedCodebase(codebasePath) ==
  /\ indexedCodebases' = FilterOut(indexedCodebases, codebasePath)
  /\ codebaseFileCount' = MapDelete(codebaseFileCount, codebasePath)
  /\ codebaseInfoMap' = MapDelete(codebaseInfoMap, codebasePath)
  /\ lastReg' = [op |-> "removeIndexedCodebase", path |-> codebasePath]
  /\ UNCHANGED <<indexingCodebases, registryDisk>>

\* saveCodebaseSnapshot(): the disk write of the registry.  It is issued
\* separately from the mutation and may lag behind it; a failed write is
\* logged and leaves the file as it was.
saveCodebaseSnapshot ==
  /\ registryDisk' = codebaseInfoMap
  /\ UNCHANGED <<indexedCodebases, indexingCodebases, codebaseFileCount,
                 codebaseInfoMap, lastReg>>

RegNext ==
  \/ \E p \in CodebasePaths, g \in ProgressValues :
        setCodebaseIndexing(p, g) /\ UNCHANGED exceptRegistry
  \/ \E p \in CodebasePaths, s \in IndexStats :
        setCodebaseIndexed(p, s) /\ UNCHANGED exceptRegistry
  \/ \E p \in CodebasePaths, e \in ErrorMessages,
        g \in ProgressValues \cup {UndefinedNumber} :
        setCodebaseIndexFailed(p, e, g) /\ UNCHANGED exceptRegistry
  \/ \E p \in CodebasePaths : removeCodebaseCompletely(p) /\ UNCHANGED exceptRegistry
  \/ \E p \in CodebasePaths : removeIndexedCodebase(p) /\ UNCHANGED exceptRegistry
  \/ saveCodebaseSnapshot /\ UNCHANGED exceptRegistry

\* The three status setters alone.
SetterNext ==
  \/ \E p \in CodebasePaths, g \in ProgressValues :
        setCodebaseIndexing(p, g) /\ UNCHANGED exceptRegistry
  \/ \E p \in CodebasePaths, s \in IndexStats :
        setCodebaseIndexed(p, s) /\ UNCHANGED exceptRegistry
  \/ \E p \in CodebasePaths, e \in ErrorMessages,
        g \in ProgressValues \cup {UndefinedNumber} :
        setCodebaseIndexFailed(p, e, g) /\ UNCHANGED exceptRegistry

(***************************************************************************)
(* Fixed-point arithmetic.  JavaScript numbers that are not integers are   *)
(* carried in millionths; every intermediate value stays below 2^31.       *)
(***************************************************************************)

\* One, in millionths.
Micro == 1000 * 1000

RECURSIVE GCD(_, _)
GCD(a, b) == IF b = 0 THEN a ELSE GCD(b, a % b)

\* floor(n * Micro / d) for 0 <= n and 0 < d < 2000000, digit group by digit group.
DivMicro(n, d) ==
  LET q0 == n \div d
      r0 == n % d
      q1 == (r0 * 1000) \div d
      r1 == (r0 * 1000) % d
      q2 == (r1 * 1000) \div d
  IN  q0 * Micro + q1 * 1000 + q2

\* a * b for a, b in millionths (b >= 0), in millionths.
MulMicro(a, b) ==
  LET ah == a \div 1000
      al == a % 1000
      bh == b \div 1000
      bl == b % 1000
  IN  ah * bh + (ah * bl + al * bh) \div 1000 + (al * bl) \div Micro

\* a * b for a, b >= 0 in millionths, exactly.
MulExact(a, b) ==
  LET ah == a \div 1000
      al == a % 1000
      bh == b \div 1000
      bl == b % 1000
      mid == ah * bl + al * bh
      low == (mid % 1000) * 1000 + al * bl
  IN  [micro |-> ah * bh + mid \div 1000 + low \div Micro, pico |-> low % Micro]

ScoreZero == [micro |-> 0, pico |-> 0]

ScoreAdd(a, b) ==
  [micro |-> a.micro + b.micro + (a.pico + b.pico) \div Micro,
   pico |-> (a.pico + b.pico) % Micro]

ScoreLess(a, b) ==
  IF a.micro = b.micro THEN a.pico < b.pico ELSE a.micro < b.micro

\* floor(sqrt(n)), found by bisection between lo and hi.
RECURSIVE SqrtBetween(_, _, _)
SqrtBetween(n, lo, hi) ==
  IF lo >= hi THEN lo
  ELSE LET mid == (lo + hi + 1) \div 2
       IN  IF mid * mid <= n THEN SqrtBetween(n, mid, hi)
           ELSE SqrtBetween(n, lo, mid - 1)

ISqrt(n) == SqrtBetween(n, 0, 46340)

\* floor(sqrt(s)) in millionths for s = micro * 10^-6 + pico * 10^-12: the
\* largest r whose square is at most s.
RECURSIVE SqrtExactBetween(_, _, _)
SqrtExactBetween(s, lo, hi) ==
  IF lo >= hi THEN lo
  ELSE LET mid == (lo + hi + 1) \div 2
       IN  IF ScoreLess(s, MulExact(mid, mid)) THEN SqrtExactBetween(s, lo, mid - 1)
           ELSE SqrtExactBetween(s, mid, hi)

SqrtExact(s) == SqrtExactBetween(s, 0, 40 * Micro)

\* The next cnt base-100 digits of r / d for 0 <= r < d < 20 * Micro, as one
\* number, and the remainder they leave.
RECURSIVE FracDigits(_, _, _)
FracDigits(r, d, cnt) ==
  IF cnt = 0 THEN 0
  ELSE ((100 * r) \div d) * (IF cnt = 3 THEN 10000 ELSE IF cnt = 2 THEN 100 ELSE 1)
         + FracDigits((100 * r) % d, d, cnt - 1)

RECURSIVE FracRemainder(_, _, _)
FracRemainder(r, d, cnt) ==
  IF cnt = 0 THEN r ELSE FracRemainder((100 * r) % d, d, cnt - 1)

\* 0 / 0 in IEEE arithmetic: a value that is not greater than anything.
NaN == [micro |-> 0, pico |-> 0, nan |-> TRUE]

\* a / d for a, d in millionths with a <= d, to twelve decimals.
DivExact(a, d) ==
  IF d = 0 THEN NaN
  ELSE [micro |-> (a \div d) * Micro + FracDigits(a % d, d, 3),
        pico |-> FracDigits(FracRemainder(a % d, d, 3), d, 3)]

\* Math.log of the odd numbers 1, 3, 5, ..., in millionths.
LnOddTable ==
  << 0, 1098612, 1609438, 1945910, 2197225, 2397895, 2564949, 2708050,
     2833213, 2944439, 3044522, 3135494, 3218876, 3295837, 3367296, 3433987,
     3496508, 3555348, 3610918, 3663562, 3713572, 3761200, 3806662, 3850148,
     3891820, 3931826, 3970292, 4007333, 4043051, 4077537, 4110874, 4143135,
     4174387, 4204693, 4234107, 4262680, 4290459, 4317488, 4343805, 4369448,
     4394449, 4418841, 4442651, 4465908, 4488636, 4510860, 4532599, 4553877,
     4574711, 4595120, 4615121, 4634729, 4653960, 4672829, 4691348, 4709530,
     4727388, 4744932, 4762174, 4779123, 4795791, 4812184, 4828314, 4844187,
     4859812, 4875197, 4890349, 4905275, 4919981, 4934474, 4948760, 4962845,
     4976734, 4990433, 5003946, 5017280, 5030438, 5043425, 5056246, 5068904,
     5081404, 5093750, 5105945, 5117994, 5129899, 5141664, 5153292, 5164786,
     5176150, 5187386, 5198497, 5209486, 5220356, 5231109, 5241747, 5252273,
     5262690, 5273000, 5283204, 5293305, 5303305, 5313206, 5323010, 5332719,
     5342334, 5351858, 5361292, 5370638, 5379897, 5389072, 5398163, 5407172,
     5416100, 5424950, 5433722, 5442418, 5451038, 5459586, 5468060, 5476464,
     5484797, 5493061, 5501258, 5509388, 5517453, 5525453, 5533389, 5541264,
     5549076, 5556828, 5564520, 5572154, 5579730, 5587249, 5594711, 5602119,
     5609472, 5616771, 5624018, 5631212, 5638355, 5645447, 5652489, 5659482,
     5666427, 5673323, 5680173, 5686975, 5693732, 5700444, 5707110, 5713733,
     5720312, 5726848, 5733341, 5739793, 5746203, 5752573, 5758902, 5765191,
     5771441, 5777652, 5783825, 5789960, 5796058, 5802118, 5808142, 5814131,
     5820083, 5826000, 5831882, 5837730, 5843544, 5849325, 5855072, 5860786,
     5866468, 5872118, 5877736, 5883322, 5888878, 5894403, 5899897, 5905362,
     5910797, 5916202, 5921578, 5926926, 5932245, 5937536, 5942799, 5948035,
     5953243, 5958425, 5963579, 5968708, 5973810, 5978886, 5983936, 5988961,
     5993961, 5998937, 6003887, 6008813, 6013715, 6018593, 6023448, 6028279,
     6033086, 6037871, 6042633, 6047372, 6052089, 6056784, 6061457, 6066108,
     6070738, 6075346, 6079933, 6084499, 6089045, 6093570, 6098074, 6102559,
     6107023, 6111467, 6115892, 6120297, 6124683, 6129050, 6133398, 6137727,
     6142037, 6146329, 6150603, 6154858, 6159095, 6163315, 6167516, 6171701 >>

\* Math.log(n) for an odd n >= 1, in millionths.
LnOdd(n) == LnOddTable[(n + 1) \div 2]

(***************************************************************************)
(* SimpleBM25.  A text is modelled as the sequence of words that           *)
(* /[^\w\s]/ -> " " followed by split(/\s+/) leaves of it; a term is a     *)
(* lower-case word.                                                        *)
(***************************************************************************)

\* String.prototype.toLowerCase on the words of the model.
toLowerCase(w) ==
  CASE w = "Fn" -> "fn"
    [] w = "Big" -> "big"
    [] OTHER -> w

\* new SimpleBM25(config): k1 and b are carried in tenths and hundredths.
NewSimpleBM25 ==
  [k1x10 |-> 12, bx100 |-> 75, minTermLength |-> 2, stopWords |-> {},
   vocabulary |-> EmptyMap, idf |-> EmptyMap,
   avgDocLength |-> [num |-> 0, den |-> 1], trained |-> FALSE]

\* new SimpleBM25({k1, b})
SimpleBM25Of(config) ==
  [NewSimpleBM25 EXCEPT !.k1x10 = config.k1x10, !.bx100 = config.bx100]

\* tokenize(text)
RECURSIVE tokenize(_, _)
tokenize(bm25, text) ==
  IF text = << >> THEN << >>
  ELSE LET term == toLowerCase(Head(text))
           rest == tokenize(bm25, Tail(text))
       IN  IF Len(term) >= bm25.minTermLength /\ term \notin bm25.stopWords
             THEN <<term>> \o rest ELSE rest

\* The keys of a Map filled by scanning a list: first occurrences, in order.
RECURSIVE FirstOccurrences(_, _)
FirstOccurrences(s, seen) ==
  IF s = << >> THEN << >>
  ELSE IF Head(s) \in seen THEN FirstOccurrences(Tail(s), seen)
       ELSE <<Head(s)>> \o FirstOccurrences(Tail(s), seen \cup {Head(s)})

\* calculateTermFrequency(tokens): the Map term -> count; its key order is
\* FirstOccurrences(tokens, {}).
calculateTermFrequency(tokens) ==
  [t \in Range(tokens) |-> Cardinality({i \in 1..Len(tokens) : tokens[i] = t})]

\* The sum of the lengths of the sequences of ss, by halves.
RECURSIVE SumLen(_)
SumLen(ss) ==
  IF ss = << >> THEN 0
  ELSE IF Len(ss) = 1 THEN Len(ss[1])
  ELSE LET mid == Len(ss) \div 2
       IN  SumLen(SubSeq(ss, 1, mid)) + SumLen(SubSeq(ss, mid + 1, Len(ss)))

\* Math.log((numDocs - df + 0.5) / (df + 0.5)), in millionths.
IdfOf(numDocs, df) ==
  LET a == 2 * (numDocs - df) + 1
      b == 2 * df + 1
      g == GCD(a, b)
  IN  LnOdd(a \div g) - LnOdd(b \div g)

\* learn(documents), for a non-empty corpus (an empty one throws).
learn(bm25, documents) ==
  LET tokenizedDocs == [i \in 1..Len(documents) |-> tokenize(bm25, documents[i])]
      totalLength == SumLen(tokenizedDocs)
      numDocs == Len(documents)
      terms == UNION {Range(tokenizedDocs[i]) : i \in 1..numDocs}
      docFreq(t) ==
        Cardinality({i \in 1..numDocs : t \in Range(tokenizedDocs[i])})
      \* docFreq is a Map: its keys are in the order the terms were first met,
      \* document by document and token by token.  The index of a term is
      \* the number of terms met before it.
      firstDoc(t) == CHOOSE i \in 1..numDocs :
                       /\ t \in Range(tokenizedDocs[i])
                       /\ \A j \in 1..(i - 1) : t \notin Range(tokenizedDocs[j])
      firstPos(t, d) == CHOOSE p \in 1..Len(d) :
                          d[p] = t /\ \A q \in 1..(p - 1) : d[q] # t
      MetBefore(t, i) ==
        UNION {Range(tokenizedDocs[j]) : j \in 1..(i - 1)}
          \cup {tokenizedDocs[i][q] : q \in 1..(firstPos(t, tokenizedDocs[i]) - 1)}
      g == GCD(totalLength, numDocs)
  IN  [bm25 EXCEPT
         !.vocabulary = [t \in terms |-> Cardinality(MetBefore(t, firstDoc(t)))],
         !.idf = [t \in terms |-> IdfOf(numDocs, docFreq(t))],
         !.avgDocLength = [num |-> totalLength \div g, den |-> numDocs \div g],
         !.trained = TRUE]

\* (tf * (k1 + 1)) / (tf + k1 * (1 - b + b * docLength / avgDocLength)),
\* in millionths.
normalizedTF(bm25, tf, docLength) ==
  LET num == tf * (bm25.k1x10 + 10) * 100 * bm25.avgDocLength.num
      den == 1000 * tf * bm25.avgDocLength.num
             + bm25.k1x10 * ((100 - bm25.bx100) * bm25.avgDocLength.num
                             + bm25.bx100 * docLength * bm25.avgDocLength.den)
      g == GCD(num, den)
  IN  DivMicro(num \div g, den \div g)

\* SparseVectorConfig: minScore, maxTerms and normalize are optional.
NoConfig ==
  [hasMinScore |-> FALSE, minScore |-> 0, hasMaxTerms |-> FALSE, maxTerms |-> 0,
   normalize |-> FALSE]

\* The termFreq.forEach loop of generate: one {idx, val} per known term whose
\* score reaches minScore, in the key order of termFreq.
RECURSIVE ScoreTerms(_, _, _, _, _)
ScoreTerms(bm25, terms, termFreq, docLength, config) ==
  IF terms = << >> THEN << >>
  ELSE LET term == Head(terms)
           rest == ScoreTerms(bm25, Tail(terms), termFreq, docLength, config)
       IN  IF term \notin DOMAIN bm25.vocabulary \/ term \notin DOMAIN bm25.idf
             THEN rest
           ELSE LET score == MulMicro(bm25.idf[term],
                                      normalizedTF(bm25, termFreq[term], docLength))
                IN  IF config.hasMinScore /\ score < config.minScore THEN rest
                    ELSE <<[idx |-> bm25.vocabulary[term], val |-> score]>> \o rest

\* combined.sort((a, b) => b.val - a.val): a stable sort, descending by val.
RECURSIVE InsertByVal(_, _)
InsertByVal(sorted, e) ==
  IF sorted = << >> THEN <<e>>
  ELSE IF Head(sorted).val >= e.val
         THEN <<Head(sorted)>> \o InsertByVal(Tail(sorted), e)
       ELSE <<e>> \o sorted

RECURSIVE SortByValDesc(_)
SortByValDesc(es) ==
  IF es = << >> THEN << >>
  ELSE InsertByVal(SortByValDesc(SubSeq(es, 1, Len(es) - 1)), es[Len(es)])

\* Math.min(...values)
MinVal(es) == CHOOSE v \in {es[i].val : i \in 1..Len(es)} :
                \A i \in 1..Len(es) : v <= es[i].val

\* A shift that makes the minimum zero.
ShiftNoEpsilon(minValue) == 0 - minValue

\* shift = -minValue + epsilon, with epsilon = 1e-6.
ShiftOf(minValue) == 0 - minValue + 1

\* values.reduce((sum, val) => sum + val * val, 0) over the first n values.
RECURSIVE SumSquaresTo(_, _)
SumSquaresTo(values, n) ==
  IF n = 0 THEN ScoreZero
  ELSE ScoreAdd(SumSquaresTo(values, n - 1), MulExact(values[n], values[n]))

\* The normalize branch of generate: every value divided by the L2 norm.
\* The quotients are carried to twelve decimals, as micro and pico.
Normalized(values) ==
  LET norm == SqrtExact(SumSquaresTo(values, Len(values)))
  IN  [i \in 1..Len(values) |-> DivExact(values[i], norm)]

\* generate(text, config) of a trained model (an untrained one throws).
\* Without normalize the values are in millionths.
generate(bm25, text, config) ==
  LET tokens == tokenize(bm25, text)
      termFreq == calculateTermFrequency(tokens)
      scored == ScoreTerms(bm25, FirstOccurrences(tokens, {}), termFreq,
                           Len(tokens), config)
      limited == IF config.hasMaxTerms /\ Len(scored) > config.maxTerms
                   THEN SubSeq(SortByValDesc(scored), 1, config.maxTerms)
                 ELSE scored
      shift == IF Len(limited) > 0 /\ MinVal(limited) <= 0
                 THEN ShiftOf(MinVal(limited)) ELSE 0
      values == [i \in 1..Len(limited) |-> limited[i].val + shift]
  IN  [indices |-> [i \in 1..Len(limited) |-> limited[i].idx],
       values  |-> IF config.normalize /\ Len(values) > 0
                     THEN Normalized(values) ELSE values]

\* toJSON(): the fields of the model, as written to the companion file.
toJSON(bm25) ==
  [k1x10 |-> bm25.k1x10, bx100 |-> bm25.bx100,
   minTermLength |-> bm25.minTermLength, stopWords |-> bm25.stopWords,
   vocabulary |-> bm25.vocabulary, idf |-> bm25.idf,
   avgDocLength |-> bm25.avgDocLength, trained |-> bm25.trained]

\* SimpleBM25.fromJSON(json)
fromJSON(json) ==
  [k1x10 |-> json.k1x10, bx100 |-> json.bx100,
   minTermLength |-> json.minTermLength, stopWords |-> json.stopWords,
   vocabulary |-> json.vocabulary, idf |-> json.idf,
   avgDocLength |-> json.avgDocLength, trained |-> json.trained]

(***************************************************************************)
(* LibSQLVectorDatabase: the local store, one SQLite file per collection.  *)
(* A row of the documents table carries id, content, relative_path,        *)
(* file_extension, dense_vector and the sparse columns; start_line,        *)
(* end_line and metadata are stored and returned like content and are not  *)
(* part of the state.  The rows of a table are kept in rowid order, the    *)
(* order in which a table scan returns them.                               *)
(***************************************************************************)

\* SQL NULL in the sparse columns (a dense collection has no such columns).
NullSparse == [null |-> TRUE]

\* `limit || 100` in query().
QueryDefaultLimit == 100

StoreInit ==
  /\ dbFiles = EmptyMap
  /\ bm25Files = EmptyMap
  /\ clients = {}
  /\ metadataCache = EmptyMap
  /\ bm25Generators = EmptyMap
  /\ lastStore = [op |-> "none"]

\* DELETE FROM documents WHERE id = x
DeleteId(rows, x) ==
  LET Other(row) == row.id # x IN SelectSeq(rows, Other)

\* A DELETE that binds only the first of the ids.
DeleteFirstId(rows, ids) ==
  IF ids = {} THEN rows
  ELSE DeleteId(rows, CHOOSE x \in ids : \A y \in ids : x <= y)

\* DELETE FROM documents WHERE id IN (ids)
DeleteIds(rows, ids) ==
  LET Kept(row) == row.id \notin ids IN SelectSeq(rows, Kept)

\* INSERT OR REPLACE: a row with the same primary key is deleted and the new
\* row is stored under a fresh rowid.
InsertOrReplace(rows, row) == Append(DeleteId(rows, row.id), row)

\* client.batch(statements): one INSERT OR REPLACE per new row, in order, in
\* one transaction.  Every statement deletes the row of its id and appends, so
\* the table ends with the old rows of other ids followed by the last new row
\* of every id, in the order of the statements.
Batch(rows, newRows) ==
  IF Len(newRows) = 1 THEN InsertOrReplace(rows, newRows[1])
  ELSE LET newIds == {newRows[i].id : i \in 1..Len(newRows)}
           numbered == [i \in 1..Len(newRows) |-> [i |-> i, row |-> newRows[i]]]
           Last(e) == \A j \in (e.i + 1)..Len(newRows) : newRows[j].id # e.row.id
           last == SelectSeq(numbered, Last)
       IN  DeleteIds(rows, newIds) \o [k \in 1..Len(last) |-> last[k].row]

\* SELECT content FROM documents
SelectContent(rows) == [i \in 1..Len(rows) |-> rows[i].content]

\* ensureLoaded(name) succeeds: a client is open or the database file exists.
CanLoad(collectionName) ==
  collectionName \in clients \/ collectionName \in DOMAIN dbFiles

\* A store that reports every collection as existing.
hasCollectionAlways(collectionName) == TRUE

\* hasCollection(name): an open client, or the .db file.
hasCollection(collectionName) ==
  collectionName \in clients \/ collectionName \in DOMAIN dbFiles

\* loadCollection(name): the caches after ensureLoaded(name) has succeeded.
LoadedMetadata(collectionName) ==
  IF collectionName \in clients THEN metadataCache
  ELSE MapSet(metadataCache, collectionName, dbFiles[collectionName].metadata)

LoadedBM25(collectionName) ==
  IF collectionName \in clients \/ ~dbFiles[collectionName].metadata.isHybrid
    THEN bm25Generators
  ELSE MapSet(bm25Generators, collectionName,
              IF collectionName \in DOMAIN bm25Files
                THEN fromJSON(bm25Files[collectionName]) ELSE NewSimpleBM25)

\* updateDocumentCount(name): COUNT(*) goes to _metadata and to the cache.
WithDocumentCount(metadata, rows) == [metadata EXCEPT !.documentCount = Len(rows)]

\* A validation that looks at the first document of the batch only.
DimensionMismatchFirst(documents, dimension) ==
  IF documents = << >> THEN FALSE ELSE Len(documents[1].vector) # dimension

\* Some document of the batch has a vector of the wrong length.
DimensionMismatch(documents, dimension) ==
  \E i \in 1..Len(documents) : Len(documents[i].vector) # dimension

\* The state after a call that threw after ensureLoaded had loaded the collection.
Thrown(collectionName, op) ==
  /\ lastStore' = [op |-> op, collection |-> collectionName, ok |-> FALSE]
  /\ clients' = IF CanLoad(collectionName) THEN clients \cup {collectionName}
                ELSE clients
  /\ metadataCache' = IF CanLoad(collectionName) THEN LoadedMetadata(collectionName)
                      ELSE metadataCache
  /\ UNCHANGED <<dbFiles, bm25Files>>

\* The state after insert or insertHybrid threw "Vector dimension mismatch".
ThrownMismatch(collectionName, op, documents) ==
  /\ lastStore' = [op |-> op, collection |-> collectionName, ok |-> FALSE,
                    error |-> "Vector dimension mismatch", documents |-> documents]
  /\ clients' = clients \cup {collectionName}
  /\ metadataCache' = LoadedMetadata(collectionName)
  /\ bm25Generators' = LoadedBM25(collectionName)
  /\ UNCHANGED <<dbFiles, bm25Files>>

createCollection(collectionName, dimension) ==
  /\ collectionName \notin DOMAIN dbFiles
  /\ dbFiles' = MapSet(dbFiles, collectionName,
       [metadata |-> [dimension |-> dimension, isHybrid |-> FALSE, documentCount |-> 0],
        documents |-> << >>])
  /\ clients' = clients \cup {collectionName}
  /\ metadataCache' = MapSet(metadataCache, collectionName,
       [dimension |-> dimension, isHybrid |-> FALSE, documentCount |-> 0])
  /\ lastStore' = [op |-> "createCollection", collection |-> collectionName, ok |-> TRUE]
  /\ UNCHANGED <<bm25Files, bm25Generators>>

createHybridCollection(collectionName, dimension) ==
  /\ collectionName \notin DOMAIN dbFiles
  /\ dbFiles' = MapSet(dbFiles, collectionName,
       [metadata |-> [dimension |-> dimension, isHybrid |-> TRUE, documentCount |-> 0],
        documents |-> << >>])
  /\ clients' = clients \cup {collectionName}
  /\ metadataCache' = MapSet(metadataCache, collectionName,
       [dimension |-> dimension, isHybrid |-> TRUE, documentCount |-> 0])
  /\ bm25Generators' = MapSet(bm25Generators, collectionName, NewSimpleBM25)
  /\ lastStore' = [op |-> "createHybridCollection", collection |-> collectionName,
                   ok |-> TRUE]
  /\ UNCHANGED bm25Files

\* What dropCollection reports: the call returned; what there was to drop is
\* kept with it.
Dropped(collectionName) ==
  [op |-> "dropCollection", collection |-> collectionName, ok |-> TRUE,
   existed |-> collectionName \in DOMAIN dbFiles,
   rows |-> IF collectionName \in DOMAIN dbFiles
              THEN Len(dbFiles[collectionName].documents) ELSE 0,
   hadModel |-> collectionName \in DOMAIN bm25Files]

\* A drop that leaves the companion BM25 file behind.
dropCollectionKeepsBM25(collectionName) ==
  /\ clients' = clients \ {collectionName}
  /\ metadataCache' = MapDelete(metadataCache, collectionName)
  /\ bm25Generators' = MapDelete(bm25Generators, collectionName)
  /\ dbFiles' = MapDelete(dbFiles, collectionName)
  /\ lastStore' = Dropped(collectionName)
  /\ UNCHANGED bm25Files

dropCollection(collectionName) ==
  /\ clients' = clients \ {collectionName}
  /\ metadataCache' = MapDelete(metadataCache, collectionName)
  /\ bm25Generators' = MapDelete(bm25Generators, collectionName)
  /\ dbFiles' = MapDelete(dbFiles, collectionName)
  /\ bm25Files' = MapDelete(bm25Files, collectionName)
  /\ lastStore' = Dropped(collectionName)

\* The row INSERT OR REPLACE writes for a document of insert().
DenseRow(doc) ==
  [id |-> doc.id, content |-> doc.content, relative_path |-> doc.relativePath,
   file_extension |-> doc.fileExtension, dense_vector |-> doc.vector,
   sparse |-> NullSparse]

insert(collectionName, documents) ==
  IF ~CanLoad(collectionName)
  THEN Thrown(collectionName, "insert") /\ UNCHANGED bm25Generators
  ELSE IF DimensionMismatch(documents,
                            LoadedMetadata(collectionName)[collectionName].dimension)
  THEN ThrownMismatch(collectionName, "insert", documents)
  ELSE LET rows == Batch(dbFiles[collectionName].documents,
                         [i \in 1..Len(documents) |-> DenseRow(documents[i])])
       IN  /\ dbFiles' = [dbFiles EXCEPT ![collectionName] =
                [metadata |-> WithDocumentCount(@.metadata, rows), documents |-> rows]]
           /\ clients' = clients \cup {collectionName}
           /\ metadataCache' = [LoadedMetadata(collectionName) EXCEPT
                ![collectionName] = WithDocumentCount(@, rows)]
           /\ bm25Generators' = LoadedBM25(collectionName)
           /\ lastStore' = [op |-> "insert", collection |-> collectionName, ok |-> TRUE,
                            documents |-> documents,
                            before |-> dbFiles[collectionName].documents]
           /\ UNCHANGED bm25Files

\* The row INSERT OR REPLACE writes for a document of insertHybrid().
HybridRow(doc, sparseVector) ==
  [id |-> doc.id, content |-> doc.content, relative_path |-> doc.relativePath,
   file_extension |-> doc.fileExtension, dense_vector |-> doc.vector,
   sparse |-> sparseVector]

\* Rows whose sparse vectors are generated before learn() has run: by the
\* model as it was before the call (no terms at all for an untrained one).
HybridRowsStale(documents, trained, before) ==
  [i \in 1..Len(documents) |->
     HybridRow(documents[i],
               IF before.trained THEN generate(before, documents[i].content, NoConfig)
               ELSE [indices |-> << >>, values |-> << >>])]

\* The rows insertHybrid() writes: learn() has returned and the sparse vector
\* of every document is generated by the model it trained.
HybridRows(documents, trained, before) ==
  [i \in 1..Len(documents) |->
     HybridRow(documents[i], generate(trained, documents[i].content, NoConfig))]

insertHybrid(collectionName, documents) ==
  IF ~CanLoad(collectionName)
  THEN Thrown(collectionName, "insertHybrid") /\ UNCHANGED bm25Generators
  ELSE
  LET metadata == LoadedMetadata(collectionName)[collectionName]
      loaded == LoadedBM25(collectionName)
      existingContents == SelectContent(dbFiles[collectionName].documents)
      allContents == existingContents
                       \o [i \in 1..Len(documents) |-> documents[i].content]
      before == IF collectionName \in DOMAIN loaded THEN loaded[collectionName]
                ELSE NewSimpleBM25
  IN  IF ~metadata.isHybrid
        THEN Thrown(collectionName, "insertHybrid") /\ bm25Generators' = loaded
      ELSE IF DimensionMismatch(documents, metadata.dimension)
        THEN ThrownMismatch(collectionName, "insertHybrid", documents)
      ELSE IF allContents = << >>
        THEN Thrown(collectionName, "insertHybrid")
             /\ bm25Generators' = MapSet(loaded, collectionName, before)
      ELSE
        \E bm25 \in {learn(before, allContents)} :
        \E rows \in {Batch(dbFiles[collectionName].documents,
                          HybridRows(documents, bm25, before))} :
            /\ dbFiles' = [dbFiles EXCEPT ![collectionName] =
                 [metadata |-> WithDocumentCount(@.metadata, rows), documents |-> rows]]
            /\ clients' = clients \cup {collectionName}
            /\ metadataCache' = [LoadedMetadata(collectionName) EXCEPT
                 ![collectionName] = WithDocumentCount(@, rows)]
            /\ bm25Generators' = MapSet(loaded, collectionName, bm25)
            /\ bm25Files' = MapSet(bm25Files, collectionName, toJSON(bm25))
            /\ lastStore' = [op |-> "insertHybrid", collection |-> collectionName,
                             ok |-> TRUE, documents |-> documents]

\* delete(name, ids); ids is an array.
delete(collectionName, ids) ==
  IF ~CanLoad(collectionName)
  THEN Thrown(collectionName, "delete") /\ UNCHANGED bm25Generators
  ELSE
  LET metadata == LoadedMetadata(collectionName)[collectionName]
      loaded == LoadedBM25(collectionName)
      rows == DeleteIds(dbFiles[collectionName].documents, Range(ids))
      contents == SelectContent(rows)
      retrain == /\ metadata.isHybrid
                 /\ collectionName \in DOMAIN loaded
                 /\ contents # << >>
      bm25 == learn(loaded[collectionName], contents)
  IN  /\ dbFiles' = [dbFiles EXCEPT ![collectionName] =
           [metadata |-> WithDocumentCount(@.metadata, rows), documents |-> rows]]
      /\ clients' = clients \cup {collectionName}
      /\ metadataCache' = [LoadedMetadata(collectionName) EXCEPT
           ![collectionName] = WithDocumentCount(@, rows)]
      /\ bm25Generators' = IF retrain THEN MapSet(loaded, collectionName, bm25)
                           ELSE loaded
      /\ bm25Files' = IF retrain
                        THEN MapSet(bm25Files, collectionName,
                                    toJSON(bm25Generators'[collectionName]))
                      ELSE bm25Files
      /\ lastStore' = [op |-> "delete", collection |-> collectionName, ok |-> TRUE,
                       ids |-> ids, before |-> dbFiles[collectionName].documents]

\* new LibSQLVectorDatabase(config) over the same storage directory: the
\* files stay, the in-memory maps start empty.
newLibSQLVectorDatabase ==
  /\ clients' = {}
  /\ metadataCache' = EmptyMap
  /\ bm25Generators' = EmptyMap
  /\ lastStore' = [op |-> "new"]
  /\ UNCHANGED <<dbFiles, bm25Files>>

\* mapFieldName(field)
mapFieldName(field) ==
  CASE field = "relativePath" -> "relative_path"
    [] field = "startLine" -> "start_line"
    [] field = "endLine" -> "end_line"
    [] field = "fileExtension" -> "file_extension"
    [] OTHER -> field

\* A filter expression is carried parsed: "" is [expr |-> "empty"],
\* "f == 'v'" is [expr |-> "==", field |-> f, value |-> v] and
\* "f in ['v', ...]" is [expr |-> "in", field |-> f, values |-> {v, ...}].
\* A text with neither " in " nor "==" is [expr |-> "raw", text |-> the text].
EmptyFilter == [expr |-> "empty"]

\* parseFilterExpression(expr): the WHERE clause.  A text that matches
\* neither pattern is warned about and returned as it is.
parseFilterExpression(filter) ==
  IF filter.expr = "in"
    THEN [column |-> mapFieldName(filter.field), op |-> "IN", values |-> filter.values]
  ELSE IF filter.expr = "=="
    THEN [column |-> mapFieldName(filter.field), op |-> "=", values |-> {filter.value}]
  ELSE [column |-> "", op |-> "raw", values |-> {}, text |-> filter.text]

\* console.warn in parseFilterExpression was reached for this filter.
Warned(filter) ==
  IF filter.expr = "empty" THEN FALSE ELSE parseFilterExpression(filter).op = "raw"

\* SQLite on a text placed after WHERE as it is: "file_extension != '.ts'" is
\* a condition on a column of documents; "startLine > 1" names no column of
\* the table and the statement is rejected.
SqlRejects(text) == text # "file_extension != '.ts'"

SqlMatches(row, text) == row.file_extension # ".ts"

\* client.execute throws on the statement built from this filter.
ExecuteThrows(filter) ==
  IF filter.expr = "empty" THEN FALSE
  ELSE LET where == parseFilterExpression(filter)
       IN  IF where.op = "raw" THEN SqlRejects(where.text) ELSE FALSE

\* SELECT ... FROM documents [WHERE clause], for a statement that executes.
SelectWhere(rows, filter) ==
  IF filter.expr = "empty" THEN rows
  ELSE LET where == parseFilterExpression(filter)
           Matches(row) == IF where.op = "raw" THEN SqlMatches(row, where.text)
                           ELSE row[where.column] \in where.values
       IN  SelectSeq(rows, Matches)

\* rowToResult(row, outputFields)
rowToResult(row, outputFields) ==
  [f \in {g \in outputFields : mapFieldName(g) \in DOMAIN row} |-> row[mapFieldName(f)]]

\* query(name, filter, outputFields, limit) on a collection that loads; an
\* absent limit is UndefinedNumber.
query(collectionName, filter, outputFields, limit) ==
  LET matching == SelectWhere(dbFiles[collectionName].documents, filter)
      n == IF limit = UndefinedNumber \/ limit = 0 THEN QueryDefaultLimit ELSE limit
      rows == SubSeq(matching, 1, IF Len(matching) < n THEN Len(matching) ELSE n)
  IN  [i \in 1..Len(rows) |-> rowToResult(rows[i], outputFields)]

(***************************************************************************)
(* Search over the LibSQL store.  A score is carried exactly as            *)
(* micro * 10^-6 + pico * 10^-12: the product of two sparse values in      *)
(* millionths has twelve decimals.  A Map<string, number> is the sequence  *)
(* of its entries [id, score] in insertion order.                          *)
(***************************************************************************)

RECURSIVE DotTo(_, _, _)
DotTo(a, b, n) == IF n = 0 THEN 0 ELSE a[n] * b[n] + DotTo(a, b, n - 1)

Dot(a, b) == DotTo(a, b, Len(a))

\* vector_distance_cos(a, b) = 1 - cos(a, b) for vectors of non-negative
\* components that are not zero, in millionths; the cosine is carried to
\* four decimals.
vector_distance_cos(a, b) ==
  Micro - 100 * ISqrt(100 * DivMicro(Dot(a, b) * Dot(a, b), Dot(a, a) * Dot(b, b)))

\* const score = 1 / (1 + distance)
DenseScore(vector, queryVector) ==
  [micro |-> DivMicro(Micro, Micro + vector_distance_cos(vector, queryVector)),
   pico |-> 0]

\* entries.sort((a, b) => b[1] - a[1]): a stable sort, descending by score.
RECURSIVE InsertByScore(_, _)
InsertByScore(sorted, e) ==
  IF sorted = << >> THEN <<e>>
  ELSE IF ScoreLess(Head(sorted).score, e.score) THEN <<e>> \o sorted
       ELSE <<Head(sorted)>> \o InsertByScore(Tail(sorted), e)

RECURSIVE SortByScoreDesc(_)
SortByScoreDesc(es) ==
  IF es = << >> THEN << >>
  ELSE InsertByScore(SortByScoreDesc(SubSeq(es, 1, Len(es) - 1)), es[Len(es)])

FirstN(s, n) == SubSeq(s, 1, IF Len(s) < n THEN Len(s) ELSE n)

\* vector_top_k('idx_dense', vector32(q), k) joined with documents: the k
\* rows nearest to q with their score, nearest first, rows at the same
\* distance in rowid order.
VectorTopK(rows, queryVector, k) ==
  FirstN(SortByScoreDesc([i \in 1..Len(rows) |->
           [id |-> rows[i].id, score |-> DenseScore(rows[i].dense_vector, queryVector)]]),
         k)

\* A threshold test that lets every score pass.
PassesAnyThreshold(score, threshold) == TRUE

\* !(options?.threshold !== undefined && score < options.threshold)
PassesThreshold(score, threshold) ==
  IF threshold = UndefinedNumber THEN TRUE ELSE ~(score.micro < threshold)

\* The results of search(name, queryVector, {topK, threshold}) without a
\* filter, on a collection that loads: ORDER BY distance ASC LIMIT topK over
\* the topK * 2 nearest rows, then the threshold.
searchResults(collectionName, queryVector, options) ==
  LET topK == IF options.topK = UndefinedNumber \/ options.topK = 0 THEN 10
              ELSE options.topK
      ordered == FirstN(VectorTopK(dbFiles[collectionName].documents,
                                   queryVector, topK * 2), topK)
      Passes(e) == PassesThreshold(e.score, options.threshold)
  IN  SelectSeq(ordered, Passes)

\* `options?.filterExpr`: the filter of a search, if it has one.
FilterOf(options) ==
  IF "filterExpr" \in DOMAIN options THEN options.filterExpr ELSE EmptyFilter

\* The results of search(name, queryVector, options) with a filter whose
\* statement executes: the WHERE clause selects among the topK * 2 nearest
\* rows, before ORDER BY distance ASC LIMIT topK and the threshold.
searchFilteredResults(collectionName, queryVector, options) ==
  LET topK == IF options.topK = UndefinedNumber \/ options.topK = 0 THEN 10
              ELSE options.topK
      rows == dbFiles[collectionName].documents
      nearest == VectorTopK(rows, queryVector, topK * 2)
      kept == SelectWhere(rows, FilterOf(options))
      Selected(e) == \E i \in 1..Len(kept) : kept[i].id = e.id
      Passes(e) == PassesThreshold(e.score, options.threshold)
  IN  SelectSeq(FirstN(SelectSeq(nearest, Selected), topK), Passes)

\* performDenseSearch(client, queryVector, limit, results): the entries set.
performDenseSearch(collectionName, queryVector, limit) ==
  VectorTopK(dbFiles[collectionName].documents, queryVector, limit * 2)

\* The dot product of a stored sparse vector with the query map.
RECURSIVE SparseDotTo(_, _, _)
SparseDotTo(sparse, queryVector, n) ==
  IF n = 0 THEN ScoreZero
  ELSE LET before == SparseDotTo(sparse, queryVector, n - 1)
           hits == {j \in 1..Len(queryVector.indices) :
                      queryVector.indices[j] = sparse.indices[n]}
       IN  IF hits = {} THEN before
           ELSE ScoreAdd(before,
                  MulExact(sparse.values[n],
                           queryVector.values[CHOOSE j \in hits : \A h \in hits : h <= j]))

\* A sparse search that keeps the rows of score 0 as well.
SparseHitAny(score) == TRUE

\* if (score > 0) results.set(id, score)
SparseHit(score) == ScoreLess(ScoreZero, score)

\* performSparseSearch(client, name, queryText, results): the entries set,
\* with the generators as they are after the collection has loaded.
performSparseSearch(collectionName, queryText) ==
  LET generators == LoadedBM25(collectionName)
  IN  IF collectionName \notin DOMAIN generators THEN << >>
      ELSE IF ~generators[collectionName].trained THEN << >>
      ELSE LET queryVector == generate(generators[collectionName], queryText, NoConfig)
               rows == dbFiles[collectionName].documents
               HasSparse(row) == row.sparse # NullSparse
               stored == SelectSeq(rows, HasSparse)
               scored == [i \in 1..Len(stored) |->
                            [id |-> stored[i].id,
                             score |-> SparseDotTo(stored[i].sparse, queryVector,
                                                   Len(stored[i].sparse.indices))]]
               Hit(e) == SparseHit(e.score)
           IN  SelectSeq(scored, Hit)

Ids(entries) == {entries[i].id : i \in 1..Len(entries)}

\* computeRanks(scores): id -> 1-based position after the sort.
computeRanks(scores) ==
  LET sorted == SortByScoreDesc(scores)
  IN  [id \in Ids(scores) |-> CHOOSE i \in 1..Len(sorted) : sorted[i].id = id]

\* applyRRF(denseResults, sparseResults, k): the entries of rrfScores, in the
\* order of new Set([...dense keys, ...sparse keys]).
applyRRF(denseResults, sparseResults, k) ==
  LET denseRanks == computeRanks(denseResults)
      sparseRanks == computeRanks(sparseResults)
      NotDense(e) == e.id \notin Ids(denseResults)
      allIds == denseResults \o SelectSeq(sparseResults, NotDense)
      Part(ranks, id) ==
        IF id \in DOMAIN ranks THEN [micro |-> DivMicro(1, k + ranks[id]), pico |-> 0]
        ELSE ScoreZero
  IN  [i \in 1..Len(allIds) |->
         [id |-> allIds[i].id,
          score |-> ScoreAdd(Part(denseRanks, allIds[i].id),
                             Part(sparseRanks, allIds[i].id))]]

\* A slice that keeps the last entries instead of the first.
SliceLast(sorted, limit) ==
  SubSeq(sorted, IF Len(sorted) < limit THEN 1 ELSE Len(sorted) - limit + 1,
         Len(sorted))

\* .slice(0, limit)
Slice(sorted, limit) == FirstN(sorted, limit)

\* The entries of rrfScores after .sort((a, b) => b[1] - a[1]), for the
\* requests <<dense>> or <<dense, sparse>> of a hybrid collection that loads.
SortedRRF(collectionName, searchRequests, options) ==
  LET limit == IF options.limit = UndefinedNumber \/ options.limit = 0 THEN 10
               ELSE options.limit
      k == IF options.k = UndefinedNumber \/ options.k = 0 THEN 60 ELSE options.k
      IsDense(r) == r.anns_field \in {"vector", "dense"}
      IsSparse(r) == r.anns_field \in {"sparse", "sparse_vector"}
      denseRequests == SelectSeq(searchRequests, IsDense)
      sparseRequests == SelectSeq(searchRequests, IsSparse)
      denseResults == IF denseRequests = << >> THEN << >>
                      ELSE performDenseSearch(collectionName, denseRequests[1].data, limit)
      sparseResults == IF sparseRequests = << >> THEN << >>
                       ELSE performSparseSearch(collectionName, sparseRequests[1].data)
  IN  SortByScoreDesc(applyRRF(denseResults, sparseResults, k))

\* The results of hybridSearch(name, searchRequests, {limit, rerank k}): the
\* first `limit` entries; every id has its row.
hybridSearchResults(collectionName, searchRequests, options) ==
  Slice(SortedRRF(collectionName, searchRequests, options),
        IF options.limit = UndefinedNumber \/ options.limit = 0 THEN 10
        ELSE options.limit)

\* The caches after a call that went through getClient(name).
Loaded(collectionName) ==
  /\ clients' = clients \cup {collectionName}
  /\ metadataCache' = LoadedMetadata(collectionName)
  /\ bm25Generators' = LoadedBM25(collectionName)
  /\ UNCHANGED <<dbFiles, bm25Files>>

search(collectionName, queryVector, options) ==
  IF ~CanLoad(collectionName)
  THEN Thrown(collectionName, "search") /\ UNCHANGED bm25Generators
  ELSE /\ Loaded(collectionName)
       /\ lastStore' =
            IF ExecuteThrows(FilterOf(options))
              THEN [op |-> "search", collection |-> collectionName, ok |-> FALSE,
                    queryVector |-> queryVector, options |-> options,
                    warned |-> TRUE]
            ELSE [op |-> "search", collection |-> collectionName, ok |-> TRUE,
                  queryVector |-> queryVector, options |-> options,
                  warned |-> Warned(FilterOf(options)),
                  results |-> IF FilterOf(options) = EmptyFilter
                                THEN searchResults(collectionName, queryVector, options)
                              ELSE searchFilteredResults(collectionName,
                                                         queryVector, options)]

\* query(name, filter, outputFields, limit) as a call: its outcome.
queryCall(collectionName, filter, outputFields, limit) ==
  IF ~CanLoad(collectionName)
  THEN Thrown(collectionName, "query") /\ UNCHANGED bm25Generators
  ELSE /\ Loaded(collectionName)
       /\ lastStore' =
            IF ExecuteThrows(filter)
              THEN [op |-> "query", collection |-> collectionName, ok |-> FALSE,
                    filter |-> filter, limit |-> limit, warned |-> TRUE]
            ELSE [op |-> "query", collection |-> collectionName, ok |-> TRUE,
                  filter |-> filter, limit |-> limit, warned |-> Warned(filter),
                  results |-> query(collectionName, filter, outputFields, limit)]

hybridSearch(collectionName, searchRequests, options) ==
  IF ~CanLoad(collectionName)
  THEN Thrown(collectionName, "hybridSearch") /\ UNCHANGED bm25Generators
  ELSE IF ~LoadedMetadata(collectionName)[collectionName].isHybrid
  THEN Thrown(collectionName, "hybridSearch")
       /\ bm25Generators' = LoadedBM25(collectionName)
  ELSE /\ Loaded(collectionName)
       /\ lastStore' = [op |-> "hybridSearch", collection |-> collectionName,
                        ok |-> TRUE, searchRequests |-> searchRequests,
                        options |-> options, warned |-> FALSE,
                        results |-> hybridSearchResults(collectionName,
                                                        searchRequests, options)]

(***************************************************************************)
(* The FAISS store: an IndexFlatL2 of vectors, labelled 0, 1, 2, ... in    *)
(* the order they were added, next to a Map id -> document.                *)
(***************************************************************************)

FaissInit ==
  /\ faissCollections = EmptyMap
  /\ lastFaiss = [op |-> "none"]

\* Vectors the index takes before the model stops adding.
MaxVectors == 3

\* createCollection(name, dimension) of the FAISS store.
FaissCreateCollection(collectionName, dimension) ==
  IF collectionName \in DOMAIN faissCollections
    THEN /\ lastFaiss' = [op |-> "createCollection", collection |-> collectionName,
                          ok |-> FALSE]
         /\ UNCHANGED faissCollections
  ELSE /\ faissCollections' = MapSet(faissCollections, collectionName,
            [index |-> << >>,
             metadata |-> [dimension |-> dimension, isHybrid |-> FALSE,
                           documentCount |-> 0],
             documents |-> << >>])
       /\ lastFaiss' = [op |-> "createCollection", collection |-> collectionName,
                        ok |-> TRUE]

\* documents.set(doc.id, {...}): a new key goes last, a known key keeps its
\* place and takes the new value.
DocumentsSet(documents, doc) ==
  LET entry == [id |-> doc.id, content |-> doc.content,
                relativePath |-> doc.relativePath, fileExtension |-> doc.fileExtension]
  IN  IF \E k \in 1..Len(documents) : documents[k].id = doc.id
        THEN [k \in 1..Len(documents) |->
                IF documents[k].id = doc.id THEN entry ELSE documents[k]]
      ELSE Append(documents, entry)

RECURSIVE DocumentsSetAll(_, _)
DocumentsSetAll(documents, docs) ==
  IF docs = << >> THEN documents
  ELSE DocumentsSetAll(DocumentsSet(documents, Head(docs)), Tail(docs))

\* insert(name, documents) of the FAISS store.
FaissInsert(collectionName, documents) ==
  IF collectionName \notin DOMAIN faissCollections
    THEN /\ lastFaiss' = [op |-> "insert", collection |-> collectionName, ok |-> FALSE]
         /\ UNCHANGED faissCollections
  ELSE
  /\ Len(faissCollections[collectionName].index) + Len(documents) <= MaxVectors
  /\ LET collection == faissCollections[collectionName]
     IN  IF DimensionMismatch(documents, collection.metadata.dimension)
           THEN /\ lastFaiss' = [op |-> "insert", collection |-> collectionName,
                                 ok |-> FALSE]
                /\ UNCHANGED faissCollections
         ELSE LET stored == DocumentsSetAll(collection.documents, documents)
              IN  /\ faissCollections' = [faissCollections EXCEPT ![collectionName] =
                       [index |-> collection.index
                                    \o [i \in 1..Len(documents) |-> documents[i].vector],
                        metadata |-> [collection.metadata EXCEPT
                                        !.documentCount = Len(stored)],
                        documents |-> stored]]
                  /\ lastFaiss' = [op |-> "insert", collection |-> collectionName,
                                   ok |-> TRUE, documents |-> documents,
                                   before |-> collection]

\* delete(name, ids) of the FAISS store: always throws.
FaissDelete(collectionName, ids) ==
  /\ lastFaiss' = [op |-> "delete", collection |-> collectionName, ok |-> FALSE]
  /\ UNCHANGED faissCollections

\* The squared L2 distance IndexFlatL2 reports.
L2Distance(u, v) ==
  LET Sq(i) == (u[i] - v[i]) * (u[i] - v[i])
      Sum[i \in 0..Len(u)] == IF i = 0 THEN 0 ELSE Sum[i - 1] + Sq(i)
  IN  Sum[Len(u)]

\* index.search(queryVector, topK): the labels of the topK nearest vectors,
\* nearest first; among equally distant vectors the lower label first.
IndexSearch(index, queryVector, topK) ==
  LET Nearer(i, j) ==
        \/ L2Distance(index[i], queryVector) < L2Distance(index[j], queryVector)
        \/ /\ L2Distance(index[i], queryVector) = L2Distance(index[j], queryVector)
           /\ i < j
      Rank(i) == Cardinality({j \in 1..Len(index) : Nearer(j, i)})
  IN  [r \in 1..topK |-> (CHOOSE i \in 1..Len(index) : Rank(i) = r - 1) - 1]

\* search(name, queryVector, {topK}) of the FAISS store on a collection value;
\* an absent topK is UndefinedNumber.  The result is the list of {id, score}.
FaissSearch(collection, queryVector, requested) ==
  LET ntotal == Len(collection.index)
      requestedTopK == IF requested = UndefinedNumber \/ requested = 0 THEN 10
                       ELSE requested
      topK == IF requestedTopK < ntotal THEN requestedTopK ELSE ntotal
      labels == IndexSearch(collection.index, queryVector, topK)
      Hit(r) == labels[r] < Len(collection.documents)
      hits == SelectSeq([r \in 1..topK |-> r], Hit)
  IN  IF ntotal = 0 THEN << >>
      ELSE [h \in 1..Len(hits) |->
              [id |-> collection.documents[labels[hits[h]] + 1].id,
               score |-> DivMicro(1, 1 + L2Distance(collection.index[labels[hits[h]] + 1],
                                                   queryVector))]]

\* createHybridCollection(name, dimension) of the FAISS store: the
\* collection gets a new, untrained SimpleBM25.
FaissCreateHybridCollection(collectionName, dimension) ==
  IF collectionName \in DOMAIN faissCollections
    THEN /\ lastFaiss' = [op |-> "createHybridCollection",
                          collection |-> collectionName, ok |-> FALSE]
         /\ UNCHANGED faissCollections
  ELSE /\ faissCollections' = MapSet(faissCollections, collectionName,
            [index |-> << >>,
             metadata |-> [dimension |-> dimension, isHybrid |-> TRUE,
                           documentCount |-> 0],
             documents |-> << >>,
             bm25 |-> NewSimpleBM25])
       /\ lastFaiss' = [op |-> "createHybridCollection",
                        collection |-> collectionName, ok |-> TRUE]

\* !collection.metadata.isHybrid || !collection.bm25
FaissNotHybrid(collection) ==
  IF collection.metadata.isHybrid THEN "bm25" \notin DOMAIN collection ELSE TRUE

\* insertHybrid(name, documents) of the FAISS store, documents not empty.
FaissInsertHybrid(collectionName, documents) ==
  IF collectionName \notin DOMAIN faissCollections
    THEN /\ lastFaiss' = [op |-> "insertHybrid", collection |-> collectionName,
                          ok |-> FALSE]
         /\ UNCHANGED faissCollections
  ELSE
  /\ Len(faissCollections[collectionName].index) + Len(documents) <= MaxVectors
  /\ LET collection == faissCollections[collectionName]
     IN  IF FaissNotHybrid(collection)
           THEN /\ lastFaiss' = [op |-> "insertHybrid", collection |-> collectionName,
                                 ok |-> FALSE]
                /\ UNCHANGED faissCollections
         ELSE IF DimensionMismatch(documents, collection.metadata.dimension)
           THEN /\ lastFaiss' = [op |-> "insertHybrid", collection |-> collectionName,
                                 ok |-> FALSE]
                /\ UNCHANGED faissCollections
         ELSE LET stored == DocumentsSetAll(collection.documents, documents)
                  allContents ==
                    [i \in 1..Len(collection.documents) |-> collection.documents[i].content]
                      \o [i \in 1..Len(documents) |-> documents[i].content]
              IN  /\ faissCollections' = [faissCollections EXCEPT ![collectionName] =
                       [index |-> collection.index
                                    \o [i \in 1..Len(documents) |-> documents[i].vector],
                        metadata |-> [collection.metadata EXCEPT
                                        !.documentCount = Len(stored)],
                        documents |-> stored,
                        bm25 |-> learn(collection.bm25, allContents)]]
                  /\ lastFaiss' = [op |-> "insertHybrid", collection |-> collectionName,
                                   ok |-> TRUE, documents |-> documents]

\* results.set(id, score) on the entries of a Map: a known key keeps its
\* place and takes the new score, a new key goes last.
EntriesSet(entries, e) ==
  IF \E i \in 1..Len(entries) : entries[i].id = e.id
    THEN [i \in 1..Len(entries) |-> IF entries[i].id = e.id THEN e ELSE entries[i]]
  ELSE Append(entries, e)

RECURSIVE EntriesSetAll(_, _)
EntriesSetAll(entries, es) ==
  IF es = << >> THEN entries
  ELSE EntriesSetAll(EntriesSet(entries, Head(es)), Tail(es))

\* performDenseSearch(collection, queryVector, limit, results) of the FAISS
\* store: the entries set.
FaissPerformDenseSearch(collection, queryVector, limit) ==
  LET ntotal == Len(collection.index)
      topK == IF limit * 2 < ntotal THEN limit * 2 ELSE ntotal
      labels == IndexSearch(collection.index, queryVector, topK)
      Hit(r) == labels[r] < Len(collection.documents)
      hits == SelectSeq([r \in 1..topK |-> r], Hit)
  IN  IF ntotal = 0 THEN << >>
      ELSE EntriesSetAll(<< >>,
             [h \in 1..Len(hits) |->
                [id |-> collection.documents[labels[hits[h]] + 1].id,
                 score |-> [micro |-> DivMicro(1, 1 + L2Distance(
                                        collection.index[labels[hits[h]] + 1],
                                        queryVector)),
                            pico |-> 0]]])

\* performSparseSearch(collection, queryText, results) of the FAISS store
\* with a trained model (generate() of an untrained one throws): the entries
\* set.  The sparse vector of a document is generated from its content.
FaissPerformSparseSearch(collection, queryText) ==
  LET queryVector == generate(collection.bm25, queryText, NoConfig)
      Sparse(doc) == generate(collection.bm25, doc.content, NoConfig)
      scored == [i \in 1..Len(collection.documents) |->
                   [id |-> collection.documents[i].id,
                    score |-> SparseDotTo(Sparse(collection.documents[i]), queryVector,
                                Len(Sparse(collection.documents[i]).indices))]]
      Hit(e) == SparseHit(e.score)
  IN  SelectSeq(scored, Hit)

\* The results of hybridSearch(name, <<dense, sparse>>, {limit, rerank k}) of
\* the FAISS store on a hybrid collection with a trained model.
FaissHybridSearchResults(collection, searchRequests, options) ==
  LET limit == IF options.limit = UndefinedNumber \/ options.limit = 0 THEN 10
               ELSE options.limit
      k == IF options.k = UndefinedNumber \/ options.k = 0 THEN 60 ELSE options.k
      denseResults == FaissPerformDenseSearch(collection, searchRequests[1].data, limit)
      sparseResults == FaissPerformSparseSearch(collection, searchRequests[2].data)
  IN  FirstN(SortByScoreDesc(applyRRF(denseResults, sparseResults, k)), limit)

\* hybridSearch(name, <<dense, sparse>>, options) of the FAISS store.
FaissHybridSearch(collectionName, searchRequests, options) ==
  /\ UNCHANGED faissCollections
  /\ lastFaiss' =
       IF collectionName \notin DOMAIN faissCollections
         THEN [op |-> "hybridSearch", collection |-> collectionName, ok |-> FALSE,
               searchRequests |-> searchRequests, options |-> options,
               error |-> "not found"]
       ELSE IF FaissNotHybrid(faissCollections[collectionName])
         THEN [op |-> "hybridSearch", collection |-> collectionName, ok |-> FALSE,
               searchRequests |-> searchRequests, options |-> options,
               error |-> "is not a hybrid collection"]
       ELSE IF ~faissCollections[collectionName].bm25.trained
         THEN [op |-> "hybridSearch", collection |-> collectionName, ok |-> FALSE,
               searchRequests |-> searchRequests, options |-> options,
               error |-> "BM25 generator must be trained"]
       ELSE [op |-> "hybridSearch", collection |-> collectionName, ok |-> TRUE,
             searchRequests |-> searchRequests, options |-> options,
             results |-> FaissHybridSearchResults(faissCollections[collectionName],
                                                  searchRequests, options)]

(***************************************************************************)
(* The callers of the store: the documents, batches and id lists handed to *)
(* it.                                                                     *)
(***************************************************************************)

\* Length of the vectors of the collection.
Dimension == 2

\* The chunk ids inserted one or two at a time.
ChunkIds == {1, 2}

\* Number of different texts a chunk id is inserted with.
NumTexts == 2

\* Size of the large batch (ids 1..BigBatchSize): more rows than query()
\* returns by default.
BigBatchSize == 101

CollectionNames == {"code_chunks"}

\* The v-th text.
Text(v) ==
  CASE v % 3 = 1 -> <<"fn", "sum", "x">>
    [] v % 3 = 2 -> <<"Fn", "big", "big">>
    [] OTHER -> <<"sum", "big">>

Doc(id, v) ==
  [id |-> id, vector |-> [i \in 1..Dimension |-> IF i = 1 THEN id % 3 ELSE v],
   content |-> Text(v),
   relativePath |-> IF id % 2 = 1 THEN "a.ts" ELSE "b.py",
   fileExtension |-> IF id % 2 = 1 THEN ".ts" ELSE ".py"]

\* A document whose vector has one component too many.
BadDoc(id, v) ==
  [Doc(id, v) EXCEPT !.vector = [i \in 1..(Dimension + 1) |-> 0]]

BigDoc(id) ==
  [id |-> id, vector |-> [i \in 1..Dimension |-> 1],
   content |-> IF id % 2 = 1 THEN <<"big", "fn">> ELSE <<"big">>,
   relativePath |-> "big.ts", fileExtension |-> ".ts"]

BigBatch == [i \in 1..BigBatchSize |-> BigDoc(i)]

\* Small batches: single chunks, two chunks, the same id twice, and a batch
\* holding a vector of the wrong length.
Batches ==
  { <<Doc(i, v)>> : i \in ChunkIds, v \in 1..NumTexts }
    \cup { <<Doc(1, 1), Doc(2, 2)>>, <<Doc(1, 1), Doc(1, 2)>>,
           <<Doc(2, 1), BadDoc(1, 1)>> }

\* Id lists: a stored or an unknown id (0), none, and two.
IdLists ==
  { <<i>> : i \in ChunkIds \cup {0} } \cup { << >>, <<1, 2>> }

\* The ids of the large batch.
BigIdList == [i \in 1..BigBatchSize |-> i]

\* A dense collection; it also receives the large batch.
StoreNext ==
  \/ \E c \in CollectionNames : createCollection(c, Dimension) /\ UNCHANGED exceptStore
  \/ \E c \in CollectionNames : dropCollection(c) /\ UNCHANGED exceptStore
  \/ \E c \in CollectionNames, d \in Batches \cup {BigBatch} :
        insert(c, d) /\ UNCHANGED exceptStore
  \/ \E c \in CollectionNames, ids \in IdLists \cup {BigIdList} :
        delete(c, ids) /\ UNCHANGED exceptStore
  \/ newLibSQLVectorDatabase /\ UNCHANGED exceptStore

\* A hybrid collection.
HybridStoreNext ==
  \/ \E c \in CollectionNames :
        createHybridCollection(c, Dimension) /\ UNCHANGED exceptStore
  \/ \E c \in CollectionNames, d \in Batches :
        insertHybrid(c, d) /\ UNCHANGED exceptStore
  \/ \E c \in CollectionNames, ids \in IdLists :
        delete(c, ids) /\ UNCHANGED exceptStore
  \/ newLibSQLVectorDatabase /\ UNCHANGED exceptStore


\* Three chunks to search among.
SearchIds == {1, 2, 3}

\* Query vectors: along the first axis, along the others, between them.
QueryVectors ==
  { [i \in 1..Dimension |-> IF i = 1 THEN a ELSE b] :
      a \in {0, 1}, b \in {0, 1} } \ { [i \in 1..Dimension |-> 0] }

\* Query texts: known terms, and a term no model knows.
QueryTexts == { <<"fn">>, <<"big", "sum">>, <<"zzz">> }

\* limit or topK: absent, or one.
Limits == {UndefinedNumber, 1}

\* threshold: absent, or 0.7.
Thresholds == {UndefinedNumber, 700000}

\* The requests of a hybrid search: a dense one and a sparse one.
SearchRequests ==
  { <<[anns_field |-> "vector", data |-> q],
      [anns_field |-> "sparse", data |-> t]>> :
      q \in QueryVectors, t \in QueryTexts }

HybridOptions == { [limit |-> l, k |-> UndefinedNumber] : l \in Limits }

\* A hybrid collection filled chunk by chunk, every chunk once and in any
\* order, and searched.
SearchNext ==
  \/ \E c \in CollectionNames :
        createHybridCollection(c, Dimension) /\ UNCHANGED exceptStore
  \/ \E c \in CollectionNames \cap DOMAIN dbFiles, v \in 1..NumTexts :
     \E i \in SearchIds \ {dbFiles[c].documents[j].id :
                               j \in 1..Len(dbFiles[c].documents)} :
        insertHybrid(c, <<Doc(i, v)>>) /\ UNCHANGED exceptStore
  \/ \E c \in CollectionNames, q \in QueryVectors, n \in Limits, t \in Thresholds :
        search(c, q, [topK |-> n, threshold |-> t]) /\ UNCHANGED exceptStore
  \/ \E c \in CollectionNames, r \in SearchRequests, o \in HybridOptions :
        hybridSearch(c, r, o) /\ UNCHANGED exceptStore

\* Batches with a vector of the wrong length in the first or in the second
\* place, next to batches without one.
InsertBatches ==
  { <<Doc(1, 1)>>, <<Doc(2, 2)>>, <<Doc(1, 2), Doc(2, 1)>>, <<BadDoc(1, 1)>>,
    <<Doc(2, 1), BadDoc(1, 1)>>, <<BadDoc(2, 2), Doc(1, 2)>> }

\* A dense or a hybrid collection that receives both kinds of insert.
InsertNext ==
  \/ \E c \in CollectionNames : createCollection(c, Dimension) /\ UNCHANGED exceptStore
  \/ \E c \in CollectionNames :
        createHybridCollection(c, Dimension) /\ UNCHANGED exceptStore
  \/ \E c \in CollectionNames, d \in InsertBatches :
        insert(c, d) /\ UNCHANGED exceptStore
  \/ \E c \in CollectionNames, d \in InsertBatches :
        insertHybrid(c, d) /\ UNCHANGED exceptStore
  \/ newLibSQLVectorDatabase /\ UNCHANGED exceptStore

\* A dense or hybrid collection that is created, filled, dropped and created
\* again, by a store that is re-opened in between.
DropNext ==
  \/ \E c \in CollectionNames : createCollection(c, Dimension) /\ UNCHANGED exceptStore
  \/ \E c \in CollectionNames :
        createHybridCollection(c, Dimension) /\ UNCHANGED exceptStore
  \/ \E c \in CollectionNames, i \in ChunkIds, v \in 1..NumTexts :
        insert(c, <<Doc(i, v)>>) /\ UNCHANGED exceptStore
  \/ \E c \in CollectionNames, i \in ChunkIds, v \in 1..NumTexts :
        insertHybrid(c, <<Doc(i, v)>>) /\ UNCHANGED exceptStore
  \/ \E c \in CollectionNames : dropCollection(c) /\ UNCHANGED exceptStore
  \/ newLibSQLVectorDatabase /\ UNCHANGED exceptStore

\* Filters that parseFilterExpression recognises, and texts it does not.
FilterExprs ==
  { [expr |-> "==", field |-> "relativePath", value |-> "a.ts"],
    [expr |-> "in", field |-> "fileExtension", values |-> {".ts"}],
    [expr |-> "raw", text |-> "file_extension != '.ts'"],
    [expr |-> "raw", text |-> "startLine > 1"] }

FilterIds == {1, 2}

\* A hybrid collection of up to two chunks, queried and searched with and
\* without a filter.
FilterNext ==
  \/ \E c \in CollectionNames :
        createHybridCollection(c, Dimension) /\ UNCHANGED exceptStore
  \/ \E c \in CollectionNames \cap DOMAIN dbFiles, v \in 1..NumTexts :
     \E i \in FilterIds \ {dbFiles[c].documents[j].id :
                               j \in 1..Len(dbFiles[c].documents)} :
        insertHybrid(c, <<Doc(i, v)>>) /\ UNCHANGED exceptStore
  \/ \E c \in CollectionNames, f \in FilterExprs \cup {EmptyFilter},
        n \in Limits :
        queryCall(c, f, {"id"}, n) /\ UNCHANGED exceptStore
  \/ \E c \in CollectionNames, q \in QueryVectors, f \in FilterExprs :
        search(c, q, [topK |-> UndefinedNumber, threshold |-> UndefinedNumber,
                      filterExpr |-> f])
          /\ UNCHANGED exceptStore
  \/ \E c \in CollectionNames, r \in SearchRequests, f \in FilterExprs :
        hybridSearch(c, r, [limit |-> UndefinedNumber, k |-> UndefinedNumber,
                            filterExpr |-> f])
          /\ UNCHANGED exceptStore

\* A hybrid FAISS collection filled chunk by chunk, every chunk once and in
\* any order, and searched.
FaissSearchNext ==
  \/ \E c \in CollectionNames :
        FaissCreateHybridCollection(c, Dimension) /\ UNCHANGED exceptFaiss
  \/ \E c \in CollectionNames \cap DOMAIN faissCollections, v \in 1..NumTexts :
     \E i \in SearchIds \ {faissCollections[c].documents[j].id :
                               j \in 1..Len(faissCollections[c].documents)} :
        FaissInsertHybrid(c, <<Doc(i, v)>>) /\ UNCHANGED exceptFaiss
  \/ \E c \in CollectionNames, r \in SearchRequests, o \in HybridOptions :
        FaissHybridSearch(c, r, o) /\ UNCHANGED exceptFaiss

\* The FAISS store; it cannot delete.
FaissNext ==
  \/ \E c \in CollectionNames :
        FaissCreateCollection(c, Dimension) /\ UNCHANGED exceptFaiss
  \/ \E c \in CollectionNames, d \in Batches :
        FaissInsert(c, d) /\ UNCHANGED exceptFaiss
  \/ \E c \in CollectionNames, ids \in IdLists :
        FaissDelete(c, ids) /\ UNCHANGED exceptFaiss

(***************************************************************************)
(* The file synchronizer: the snapshot of relative path -> hash it keeps   *)
(* per root, in memory and in the snapshot directory.                      *)
(***************************************************************************)

\* The codebase root.
Root == "/project"

\* The files that come and go under the root; big.ts is the file that
\* splits into more chunks than one query() returns by default.
Paths == {"a.ts", "big.ts"}

\* The contents a file is written with.
FileVersions == {1, 2}

\* H(file_bytes): equal bytes give equal hashes, different bytes different ones.
Hash(content) == 16 * content + 7

\* Walk the current tree: relPath -> H.
Walk(tree) == [p \in DOMAIN tree |-> Hash(tree[p])]

NoChanges == [added |-> {}, modified |-> {}, removed |-> {}]

\* The three-set diff of the walk against the snapshot.
Diff(snapshot, current) ==
  [added |-> (DOMAIN current) \ (DOMAIN snapshot),
   modified |-> {p \in (DOMAIN current) \cap (DOMAIN snapshot) :
                   current[p] # snapshot[p]},
   removed |-> (DOMAIN snapshot) \ (DOMAIN current)]

\* A check that leaves the snapshot it diffed against in place.
SnapshotKept(snapshot, current) == snapshot

\* The snapshot checkForChanges() leaves: it replaces the old one with the walk.
SnapshotAfterCheck(snapshot, current) == current

SyncInit ==
  /\ fsTree = EmptyMap
  /\ snapshotFiles = EmptyMap
  /\ synchronizers = EmptyMap
  /\ lastCheck = [op |-> "none"]
  /\ changed = [memory |-> FALSE, disk |-> FALSE]
  /\ baseline = [memory |-> EmptyMap, disk |-> EmptyMap]

\* The snapshot initialize() ends with: the persisted one if there is one,
\* otherwise a walk of the tree.
Initialized(root) ==
  IF root \in DOMAIN snapshotFiles THEN snapshotFiles[root] ELSE Walk(fsTree)

\* Has the tree changed since the snapshot initialize() ends with was taken.
ChangedSinceInitialized(root) ==
  IF root \in DOMAIN snapshotFiles THEN changed.disk ELSE FALSE

\* The tree the snapshot initialize() ends with was taken from.
BaselineInitialized(root) ==
  IF root \in DOMAIN snapshotFiles THEN baseline.disk ELSE fsTree

\* new FileSynchronizer(root) followed by initialize(); a walk is persisted.
initialize(root) ==
  /\ synchronizers' = MapSet(synchronizers, root, Initialized(root))
  /\ snapshotFiles' = MapSet(snapshotFiles, root, Initialized(root))
  /\ changed' = [memory |-> ChangedSinceInitialized(root),
                 disk |-> ChangedSinceInitialized(root)]
  /\ baseline' = [memory |-> BaselineInitialized(root),
                  disk |-> BaselineInitialized(root)]
  /\ lastCheck' = [op |-> "initialize", loaded |-> root \in DOMAIN snapshotFiles]
  /\ UNCHANGED fsTree

\* A check that returns without writing the snapshot file.
NotPersisted(files, root, snapshot) == files

\* checkForChanges() persists the new snapshot before it returns.
PersistedAfterCheck(files, root, snapshot) == MapSet(files, root, snapshot)

\* checkForChanges() of a synchronizer holding `snapshot`; `quiet` says that
\* the tree has not changed since that snapshot was taken, `previous` is the
\* synchronizer call before this one.
Check(root, snapshot, quiet, previous) ==
  LET current == Walk(fsTree)
      next == SnapshotAfterCheck(snapshot, current)
  IN  /\ synchronizers' = MapSet(synchronizers, root, next)
      /\ snapshotFiles' = PersistedAfterCheck(snapshotFiles, root, next)
      /\ lastCheck' = [op |-> "checkForChanges", previous |-> previous,
                       quiet |-> quiet, changes |-> Diff(snapshot, current),
                       since |-> IF root \in DOMAIN synchronizers
                                   THEN baseline.memory
                                 ELSE BaselineInitialized(root),
                       tree |-> fsTree,
                       restarted |-> IF lastCheck.op = "initialize"
                                       THEN lastCheck.loaded ELSE FALSE]
      /\ changed' = [memory |-> FALSE, disk |-> FALSE]
      /\ baseline' = [memory |-> fsTree, disk |-> fsTree]
      /\ UNCHANGED fsTree

checkForChanges(root) ==
  /\ root \in DOMAIN synchronizers
  /\ Check(root, synchronizers[root], ~changed.memory, lastCheck.op)

\* FileSynchronizer.deleteSnapshot(root)
deleteSnapshot(root) ==
  /\ root \in DOMAIN snapshotFiles
  /\ snapshotFiles' = MapDelete(snapshotFiles, root)
  /\ changed' = [changed EXCEPT !.disk = FALSE]
  /\ baseline' = [baseline EXCEPT !.disk = EmptyMap]
  /\ UNCHANGED <<fsTree, synchronizers, lastCheck>>

\* The tree is edited between runs of the pipeline.
TreeChanged ==
  changed' = [memory |-> Root \in DOMAIN synchronizers,
              disk |-> Root \in DOMAIN snapshotFiles]

\* fs.writeFile(path, content) with new bytes
writeFile(path, content) ==
  /\ ~run.active
  /\ IF path \in DOMAIN fsTree THEN fsTree[path] # content ELSE TRUE
  /\ fsTree' = MapSet(fsTree, path, content)
  /\ TreeChanged
  /\ UNCHANGED <<snapshotFiles, synchronizers, lastCheck, baseline>>

\* fs.unlink(path)
unlink(path) ==
  /\ ~run.active
  /\ path \in DOMAIN fsTree
  /\ fsTree' = MapDelete(fsTree, path)
  /\ TreeChanged
  /\ UNCHANGED <<snapshotFiles, synchronizers, lastCheck, baseline>>

SyncNext ==
  \/ initialize(Root) /\ UNCHANGED exceptSync
  \/ checkForChanges(Root) /\ UNCHANGED exceptSync
  \/ deleteSnapshot(Root) /\ UNCHANGED exceptSync
  \/ \E p \in Paths, v \in FileVersions :
        writeFile(p, v) /\ UNCHANGED exceptSync
  \/ \E p \in Paths : unlink(p) /\ UNCHANGED exceptSync

(***************************************************************************)
(* The indexing pipeline: full index and reindexByChange of one codebase,  *)
(* one store call per step, over the LibSQL store.                         *)
(***************************************************************************)

\* getCollectionName(root): the same name for the same root.
getCollectionName(root) ==
  CASE root = "/p1" -> "code_chunks_p1"
    [] root = "/p2" -> "code_chunks_p2"
    [] OTHER -> "code_chunks"

\* The order of the walk.
PathOrder == <<"a.ts", "big.ts">>

\* Embedding batches are bounded in size.
EmbeddingBatchSize == 64

\* The splitter: the chunks of a file.  The id of a chunk is a function of
\* its path and content, so another version of a file has other chunk ids.
\* The first version of big.ts has BigBatchSize chunks, the second has two.
Chunks(path, content) ==
  IF path = "a.ts" THEN <<Doc(2 * content - 1, content)>>
  ELSE [i \in 1..(IF content = 1 THEN BigBatchSize ELSE 2) |->
          BigDoc(2 * content * BigBatchSize + i)]

ChunksOfPath(tree, paths, p) ==
  IF p \in paths /\ p \in DOMAIN tree THEN Chunks(p, tree[p]) ELSE << >>

\* The chunks of the files `paths` of the tree, in the order of the walk.
ChunksOf(tree, paths) ==
  ChunksOfPath(tree, paths, PathOrder[1])
    \o ChunksOfPath(tree, paths, PathOrder[2])

\* The chunks cut into batches of at most EmbeddingBatchSize.
SplitBatches(chunks) ==
  [k \in 1..((Len(chunks) + EmbeddingBatchSize - 1) \div EmbeddingBatchSize) |->
     SubSeq(chunks, (k - 1) * EmbeddingBatchSize + 1,
            IF k * EmbeddingBatchSize < Len(chunks) THEN k * EmbeddingBatchSize
            ELSE Len(chunks))]

\* A set of paths as a list.
Sorted(paths) ==
  LET In(p) == p \in paths IN SelectSeq(PathOrder, In)

PipeInit ==
  /\ clearing = FALSE
  /\ lastSearch = [op |-> "none"]
  /\ run = [active |-> FALSE, kind |-> "none", hybrid |-> FALSE, deletes |-> << >>,
         inserts |-> << >>, changes |-> NoChanges, log |-> << >>,
         rowsAtStart |-> << >>, tree |-> EmptyMap]

\* A lock that is granted whoever holds it.
WriteLockAlwaysFree(root) == TRUE

\* The exclusive write lock of the collection of the root is free: no index,
\* reindex or clear_index holds it.
WriteLockFree(root) == ~run.active /\ ~clearing

\* A run that inserts before it has deleted.
NextStepInsertsFirst(r) ==
  IF r.inserts # << >> THEN "insert"
  ELSE IF r.deletes # << >> THEN "delete" ELSE "none"

\* The step a run takes next: the deletes first, then the inserts.
NextStep(r) ==
  IF r.deletes # << >> THEN "delete"
  ELSE IF r.inserts # << >> THEN "insert" ELSE "none"

\* indexCodebase(root): the collection is created and the run is set up;
\* the batches follow one by one.
indexCodebase(root, hybrid) ==
  /\ WriteLockFree(root)
  /\ IF hybrid THEN createHybridCollection(getCollectionName(root), Dimension)
     ELSE createCollection(getCollectionName(root), Dimension)
  /\ run' = [active |-> fsTree # EmptyMap, kind |-> "index", hybrid |-> hybrid,
             deletes |-> << >>,
             inserts |-> SplitBatches(ChunksOf(fsTree, DOMAIN fsTree)),
             changes |-> NoChanges, log |-> << >>, rowsAtStart |-> << >>,
             tree |-> fsTree]
  /\ UNCHANGED <<syncVars, clearing, lastSearch>>

\* reindexByChange(root) up to its first store call: the synchronizer of the
\* root is obtained (created and initialized if absent) and asked for the
\* changes.
reindexByChange(root) ==
  /\ WriteLockFree(root)
  /\ getCollectionName(root) \in DOMAIN dbFiles
  /\ IF root \in DOMAIN synchronizers
       THEN Check(root, synchronizers[root], ~changed.memory, lastCheck.op)
     ELSE Check(root, Initialized(root), ~ChangedSinceInitialized(root),
                "initialize")
  /\ LET changes == lastCheck'.changes
         deletes == Sorted(changes.removed \cup changes.modified)
         inserts == SplitBatches(ChunksOf(fsTree, changes.added \cup changes.modified))
     IN  run' = [active |-> deletes # << >> \/ inserts # << >>,
                 kind |-> "reindex",
                 hybrid |-> dbFiles[getCollectionName(root)].metadata.isHybrid,
                 deletes |-> deletes, inserts |-> inserts, changes |-> changes,
                 log |-> << >>,
                 rowsAtStart |-> dbFiles[getCollectionName(root)].documents,
                 tree |-> fsTree]
  /\ UNCHANGED <<storeVars, clearing, lastSearch>>

\* deleteFileChunks(collection, path): the ids of the chunks of the path are
\* queried, then deleted.
deleteFileChunks(root) ==
  /\ run.active
  /\ NextStep(run) = "delete"
  /\ LET results == query(getCollectionName(root),
                          [expr |-> "==", field |-> "relativePath",
                           value |-> Head(run.deletes)],
                          {"id"}, UndefinedNumber)
     IN  delete(getCollectionName(root), [i \in 1..Len(results) |-> results[i].id])
  /\ run' = [run EXCEPT !.deletes = Tail(@),
                        !.log = Append(@, [op |-> "delete"]),
                        !.active = Tail(run.deletes) # << >> \/ run.inserts # << >>]
  /\ UNCHANGED <<syncVars, clearing, lastSearch>>

\* processChunkBatch(batch): the batch is embedded and upserted.
processChunkBatch(root) ==
  /\ run.active
  /\ NextStep(run) = "insert"
  /\ IF run.hybrid THEN insertHybrid(getCollectionName(root), Head(run.inserts))
     ELSE insert(getCollectionName(root), Head(run.inserts))
  /\ run' = [run EXCEPT !.inserts = Tail(@),
                        !.log = Append(@, [op |-> "insert"]),
                        !.active = Tail(run.inserts) # << >> \/ run.deletes # << >>]
  /\ UNCHANGED <<syncVars, clearing, lastSearch>>

\* clearIndex(root) takes the write lock of the collection ...
clearIndex(root) ==
  /\ WriteLockFree(root)
  /\ getCollectionName(root) \in DOMAIN dbFiles
  /\ clearing' = TRUE
  /\ UNCHANGED <<run, storeVars, syncVars, lastSearch>>

\* ... drops the collection and gives the lock back.
clearIndexDrop(root) ==
  /\ clearing
  /\ dropCollection(getCollectionName(root))
  /\ clearing' = FALSE
  /\ UNCHANGED <<run, syncVars, lastSearch>>

\* The store calls of semanticSearch(root, query, topK): none without a
\* collection; otherwise the query is embedded and handed to hybridSearch if
\* the collection is hybrid, to search if it is not.  The embedding of the
\* query is queryVector.
semanticSearchStore(root, queryVector, queryText, topK) ==
  LET c == getCollectionName(root)
  IN  IF ~hasCollection(c) THEN UNCHANGED storeVars
      ELSE IF CanLoad(c) /\ LoadedMetadata(c)[c].isHybrid
        THEN hybridSearch(c, <<[anns_field |-> "vector", data |-> queryVector],
                               [anns_field |-> "sparse", data |-> queryText]>>,
                          [limit |-> topK, k |-> UndefinedNumber])
      ELSE search(c, queryVector, [topK |-> topK, threshold |-> UndefinedNumber])

\* What semanticSearch returns after these calls.
semanticSearchReturns(root) ==
  IF ~hasCollection(getCollectionName(root)) THEN [ok |-> TRUE, results |-> << >>]
  ELSE [ok |-> lastStore'.ok,
        results |-> IF lastStore'.ok THEN lastStore'.results ELSE << >>]

\* semanticSearch(root, query, topK)
semanticSearch(root, queryVector, queryText, topK) ==
  /\ semanticSearchStore(root, queryVector, queryText, topK)
  /\ lastSearch' = [op |-> "semanticSearch", root |-> root,
                    ok |-> semanticSearchReturns(root).ok,
                    existed |-> getCollectionName(root) \in DOMAIN dbFiles,
                    results |-> semanticSearchReturns(root).results]
  /\ UNCHANGED <<run, clearing, syncVars>>

\* A search_code that serves finished indexes only.
SearchAllowedIndexedOnly(path) == path \in getIndexedCodebases

\* search_code serves a codebase the registry lists as indexed or as indexing.
SearchAllowed(path) ==
  IF path \in getIndexedCodebases THEN TRUE ELSE path \in getIndexingCodebases

\* handleSearchCode({path, query, limit}) for an existing path: a codebase
\* the registry does not list is refused as not indexed; otherwise the
\* search is made, and the answer carries the in-progress hint if the
\* registry lists the codebase as indexing.
handleSearchCode(path, queryVector, queryText, limit) ==
  IF ~SearchAllowed(path)
    THEN /\ lastSearch' = [op |-> "handleSearchCode", path |-> path,
                            isError |-> TRUE, text |-> "not indexed",
                            indexing |-> path \in getIndexingCodebases,
                            hint |-> FALSE, results |-> << >>]
         /\ UNCHANGED <<run, clearing, storeVars, syncVars>>
  ELSE /\ semanticSearchStore(path, queryVector, queryText, limit)
       /\ lastSearch' = [op |-> "handleSearchCode", path |-> path,
                          isError |-> ~semanticSearchReturns(path).ok,
                          text |-> IF semanticSearchReturns(path).ok
                                     THEN "results" ELSE "error",
                          indexing |-> path \in getIndexingCodebases,
                          hint |-> path \in getIndexingCodebases,
                          results |-> semanticSearchReturns(path).results]
       /\ UNCHANGED <<run, clearing, syncVars>>

\* Full index and incremental reindex of a dense collection.
ReindexNext ==
  \/ \E p \in Paths, v \in FileVersions :
        writeFile(p, v) /\ UNCHANGED exceptSync
  \/ \E p \in Paths : unlink(p) /\ UNCHANGED exceptSync
  \/ indexCodebase(Root, FALSE) /\ UNCHANGED exceptPipeline
  \/ reindexByChange(Root) /\ UNCHANGED exceptPipeline
  \/ deleteFileChunks(Root) /\ UNCHANGED exceptPipeline
  \/ processChunkBatch(Root) /\ UNCHANGED exceptPipeline

\* Full index of a dense or a hybrid collection.
FullIndexNext ==
  \/ \E p \in Paths, v \in FileVersions :
        writeFile(p, v) /\ UNCHANGED exceptSync
  \/ \E p \in Paths : unlink(p) /\ UNCHANGED exceptSync
  \/ \E hybrid \in BOOLEAN :
        indexCodebase(Root, hybrid) /\ UNCHANGED exceptPipeline
  \/ processChunkBatch(Root) /\ UNCHANGED exceptPipeline

\* Index, reindex and clear of a dense collection, of a tree whose files
\* come and go.
PipelineNext ==
  \/ \E p \in Paths : writeFile(p, 1) /\ UNCHANGED exceptSync
  \/ \E p \in Paths : unlink(p) /\ UNCHANGED exceptSync
  \/ indexCodebase(Root, FALSE) /\ UNCHANGED exceptPipeline
  \/ reindexByChange(Root) /\ UNCHANGED exceptPipeline
  \/ deleteFileChunks(Root) /\ UNCHANGED exceptPipeline
  \/ processChunkBatch(Root) /\ UNCHANGED exceptPipeline
  \/ clearIndex(Root) /\ UNCHANGED exceptPipeline
  \/ clearIndexDrop(Root) /\ UNCHANGED exceptPipeline

\* A codebase of one small file, indexed dense or hybrid, searched and
\* cleared.
LifecycleNext ==
  \/ \E v \in FileVersions : writeFile("a.ts", v) /\ UNCHANGED exceptSync
  \/ \E hybrid \in BOOLEAN :
        indexCodebase(Root, hybrid) /\ UNCHANGED exceptPipeline
  \/ processChunkBatch(Root) /\ UNCHANGED exceptPipeline
  \/ clearIndex(Root) /\ UNCHANGED exceptPipeline
  \/ clearIndexDrop(Root) /\ UNCHANGED exceptPipeline
  \/ \E q \in QueryVectors, t \in QueryTexts :
        semanticSearch(Root, q, t, 5) /\ UNCHANGED exceptPipeline

(***************************************************************************)
(* Reconciliation of the registry with the store (startup, sync sweep).    *)
(***************************************************************************)

\* listCollections(): the names of the .db files of the storage directory.
listCollections == DOMAIN dbFiles

\* A sweep that looks at the indexing entries as well.
SweptEntriesWithIndexing == getIndexedCodebases \cup getIndexingCodebases

\* The entries a sweep looks at: the indexed ones.
SweptEntries == getIndexedCodebases

\* The longest run of consecutive sweeps that is counted.
MaxSweeps == 3

\* syncIndexedCodebasesFromCloud(): every swept entry whose collection is
\* not listed is dropped from the registry, and the registry is saved if
\* an entry was dropped.
syncIndexedCodebasesFromCloud ==
  LET orphaned == {p \in SweptEntries : getCollectionName(p) \notin listCollections}
      again == IF lastReg.op = "syncIndexedCodebasesFromCloud"
               THEN lastReg.collections = listCollections ELSE FALSE
  IN  /\ indexedCodebases' = SelectSeq(indexedCodebases, LAMBDA p : p \notin orphaned)
      /\ indexingCodebases' =
           [p \in DOMAIN indexingCodebases \ orphaned |-> indexingCodebases[p]]
      /\ codebaseFileCount' =
           [p \in DOMAIN codebaseFileCount \ orphaned |-> codebaseFileCount[p]]
      /\ codebaseInfoMap' =
           [p \in DOMAIN codebaseInfoMap \ orphaned |-> codebaseInfoMap[p]]
      /\ registryDisk' = IF orphaned = {} THEN registryDisk ELSE codebaseInfoMap'
      /\ lastReg' =
           [op |-> "syncIndexedCodebasesFromCloud",
            collections |-> listCollections,
            indexed |-> getIndexedCodebases,
            indexing |-> indexingCodebases,
            info |-> codebaseInfoMap,
            sweeps |-> IF ~again THEN 1
                       ELSE IF lastReg.sweeps < MaxSweeps THEN lastReg.sweeps + 1
                       ELSE MaxSweeps,
            dropped |-> IF again THEN lastReg.dropped \cup orphaned ELSE orphaned]

ReconcileNext ==
  \/ \E p \in CodebasePaths, g \in {0, 50} :
        setCodebaseIndexing(p, g) /\ UNCHANGED exceptRegistry
  \/ \E p \in CodebasePaths :
        setCodebaseIndexed(p, [indexedFiles |-> 10, totalChunks |-> 100,
                               status |-> "completed"])
          /\ UNCHANGED exceptRegistry
  \/ \E p \in CodebasePaths, e \in ErrorMessages :
        setCodebaseIndexFailed(p, e, UndefinedNumber) /\ UNCHANGED exceptRegistry
  \/ \E p \in CodebasePaths :
        createHybridCollection(getCollectionName(p), Dimension)
          /\ UNCHANGED exceptStore
  \/ \E p \in CodebasePaths :
        dropCollection(getCollectionName(p)) /\ UNCHANGED exceptStore
  \/ syncIndexedCodebasesFromCloud /\ UNCHANGED exceptRegistry

\* A codebase whose background index fills its collection while the
\* registry is updated, swept and searched.
IndexingSearchNext ==
  \/ \E g \in {0, 50} : setCodebaseIndexing("/p1", g) /\ UNCHANGED exceptRegistry
  \/ setCodebaseIndexed("/p1", [indexedFiles |-> 10, totalChunks |-> 100,
                                status |-> "completed"])
        /\ UNCHANGED exceptRegistry
  \/ createHybridCollection(getCollectionName("/p1"), Dimension)
        /\ UNCHANGED exceptStore
  \/ \E c \in {getCollectionName("/p1")} \cap DOMAIN dbFiles, v \in 1..NumTexts :
     \E i \in FilterIds \ {dbFiles[c].documents[j].id :
                               j \in 1..Len(dbFiles[c].documents)} :
        insertHybrid(c, <<Doc(i, v)>>) /\ UNCHANGED exceptStore
  \/ dropCollection(getCollectionName("/p1")) /\ UNCHANGED exceptStore
  \/ syncIndexedCodebasesFromCloud /\ UNCHANGED exceptRegistry
  \/ \E q \in QueryVectors, t \in QueryTexts :
        handleSearchCode("/p1", q, t, 5) /\ UNCHANGED exceptPipeline

(***************************************************************************)
(* A SimpleBM25 used on its own: constructed, trained and asked for sparse *)
(* vectors under every SparseVectorConfig.                                 *)
(***************************************************************************)

GenInit ==
  /\ simpleBM25 = NewSimpleBM25
  /\ lastBM25 = [op |-> "none"]

\* new SimpleBM25(config)
SimpleBM25Construct(config) ==
  /\ simpleBM25' = SimpleBM25Of(config)
  /\ lastBM25' = [op |-> "new", ok |-> TRUE]

\* bm25.learn(documents)
SimpleBM25Learn(documents) ==
  IF Len(documents) = 0
    THEN /\ lastBM25' = [op |-> "learn", ok |-> FALSE,
                         error |-> "Cannot learn from empty corpus"]
         /\ UNCHANGED simpleBM25
  ELSE /\ simpleBM25' = learn(simpleBM25, documents)
       /\ lastBM25' = [op |-> "learn", ok |-> TRUE]

\* bm25.generate(text, config)
SimpleBM25Generate(text, config) ==
  /\ lastBM25' =
       IF ~simpleBM25.trained
         THEN [op |-> "generate", ok |-> FALSE,
               error |-> "BM25 generator must be trained"]
       ELSE [op |-> "generate", ok |-> TRUE, text |-> text, config |-> config,
             vector |-> generate(simpleBM25, text, config)]
  /\ UNCHANGED simpleBM25

\* The k1 and b a model is constructed with: the defaults, or 2.0 and 0.
BM25Configs == { [k1x10 |-> 12, bx100 |-> 75], [k1x10 |-> 20, bx100 |-> 0] }

\* The corpora a model is trained on: up to three documents.
Corpora ==
  UNION { [1..n -> {Text(v) : v \in 1..NumTexts}] : n \in 0..3 }

\* The texts a sparse vector is asked for.
GenerateTexts ==
  {Text(v) : v \in 1..NumTexts} \cup { <<"fn", "big", "sum">>, <<"zzz">> }

\* minScore absent, 0 or 0.5; maxTerms absent or 2; normalize or not.
SparseVectorConfigs ==
  { [hasMinScore |-> m # UndefinedNumber, minScore |-> IF m = UndefinedNumber THEN 0 ELSE m,
     hasMaxTerms |-> t # UndefinedNumber, maxTerms |-> IF t = UndefinedNumber THEN 0 ELSE t,
     normalize |-> n] :
      m \in {UndefinedNumber, 0, 500000}, t \in {UndefinedNumber, 2},
      n \in BOOLEAN }

GeneratorNext ==
  \/ \E config \in BM25Configs :
        SimpleBM25Construct(config) /\ UNCHANGED exceptGenerator
  \/ \E documents \in Corpora :
        SimpleBM25Learn(documents) /\ UNCHANGED exceptGenerator
  \/ \E text \in GenerateTexts, config \in SparseVectorConfigs :
        SimpleBM25Generate(text, config) /\ UNCHANGED exceptGenerator

(***************************************************************************)
(* QdrantVectorDatabase: the collections live on the server, the BM25      *)
(* generator in the store object, the saved models under ~/.context/bm25.  *)
(***************************************************************************)

QdrantInit ==
  /\ qdrantCollections = EmptyMap
  /\ qdrantModelFiles = EmptyMap
  /\ bm25Generator = NewSimpleBM25
  /\ lastQdrant = [op |-> "none"]

\* The server's answer for a collection it does not have, or has already.
QdrantThrows(op, collectionName) ==
  /\ lastQdrant' = [op |-> op, collection |-> collectionName, ok |-> FALSE]
  /\ UNCHANGED <<qdrantCollections, qdrantModelFiles, bm25Generator>>

\* createHybridCollection(collectionName, dimension)
QdrantCreateHybridCollection(collectionName, dimension) ==
  IF collectionName \in DOMAIN qdrantCollections
    THEN QdrantThrows("createHybridCollection", collectionName)
  ELSE /\ qdrantCollections' =
            MapSet(qdrantCollections, collectionName,
                   [dimension |-> dimension, isHybrid |-> TRUE, points |-> EmptyMap])
       /\ lastQdrant' = [op |-> "createHybridCollection",
                         collection |-> collectionName, ok |-> TRUE]
       /\ UNCHANGED <<qdrantModelFiles, bm25Generator>>

\* dropCollection(collectionName)
QdrantDropCollection(collectionName) ==
  IF collectionName \notin DOMAIN qdrantCollections
    THEN QdrantThrows("dropCollection", collectionName)
  ELSE /\ qdrantCollections' = MapDelete(qdrantCollections, collectionName)
       /\ lastQdrant' = [op |-> "dropCollection", collection |-> collectionName,
                         ok |-> TRUE]
       /\ UNCHANGED <<qdrantModelFiles, bm25Generator>>

\* getBM25Generator().learn(corpus): the training insertHybrid asks its
\* caller for.
QdrantGetBM25GeneratorLearn(corpus) ==
  /\ bm25Generator' = learn(bm25Generator, corpus)
  /\ lastQdrant' = [op |-> "learn", ok |-> TRUE]
  /\ UNCHANGED <<qdrantCollections, qdrantModelFiles>>

\* The point insertHybrid upserts for a document.
QdrantPoint(doc) ==
  [dense |-> doc.vector, sparse |-> generate(bm25Generator, doc.content, NoConfig),
   content |-> doc.content, relativePath |-> doc.relativePath,
   fileExtension |-> doc.fileExtension]

RECURSIVE QdrantUpsert(_, _)
QdrantUpsert(points, documents) ==
  IF documents = << >> THEN points
  ELSE QdrantUpsert(MapSet(points, Head(documents).id, QdrantPoint(Head(documents))),
                    Tail(documents))

\* insertHybrid(collectionName, documents)
QdrantInsertHybrid(collectionName, documents) ==
  IF ~bm25Generator.trained
    THEN /\ lastQdrant' = [op |-> "insertHybrid", collection |-> collectionName,
                           ok |-> FALSE,
                           error |-> "BM25 generator is not trained"]
         /\ UNCHANGED <<qdrantCollections, qdrantModelFiles, bm25Generator>>
  ELSE IF collectionName \notin DOMAIN qdrantCollections
    THEN QdrantThrows("insertHybrid", collectionName)
  ELSE /\ qdrantCollections' =
            [qdrantCollections EXCEPT ![collectionName].points =
               QdrantUpsert(@, documents)]
       /\ lastQdrant' = [op |-> "insertHybrid", collection |-> collectionName,
                         ok |-> TRUE]
       /\ UNCHANGED <<qdrantModelFiles, bm25Generator>>

\* delete(collectionName, ids)
QdrantDelete(collectionName, ids) ==
  IF collectionName \notin DOMAIN qdrantCollections
    THEN QdrantThrows("delete", collectionName)
  ELSE /\ qdrantCollections' =
            [qdrantCollections EXCEPT ![collectionName].points =
               [i \in (DOMAIN @) \ ids |-> @[i]]]
       /\ lastQdrant' = [op |-> "delete", collection |-> collectionName, ok |-> TRUE]
       /\ UNCHANGED <<qdrantModelFiles, bm25Generator>>

\* saveBM25Model(collectionName)
saveBM25Model(collectionName) ==
  /\ qdrantModelFiles' =
       IF bm25Generator.trained
         THEN MapSet(qdrantModelFiles, collectionName, toJSON(bm25Generator))
       ELSE qdrantModelFiles
  /\ lastQdrant' = [op |-> "saveBM25Model", collection |-> collectionName,
                    ok |-> TRUE]
  /\ UNCHANGED <<qdrantCollections, bm25Generator>>

\* loadBM25Model(collectionName): true when a saved model was loaded.
loadBM25Model(collectionName) ==
  /\ bm25Generator' =
       IF collectionName \in DOMAIN qdrantModelFiles
         THEN fromJSON(qdrantModelFiles[collectionName])
       ELSE bm25Generator
  /\ lastQdrant' = [op |-> "loadBM25Model", collection |-> collectionName,
                    ok |-> TRUE,
                    loaded |-> collectionName \in DOMAIN qdrantModelFiles]
  /\ UNCHANGED <<qdrantCollections, qdrantModelFiles>>

\* deleteBM25Model(collectionName)
deleteBM25Model(collectionName) ==
  /\ qdrantModelFiles' = MapDelete(qdrantModelFiles, collectionName)
  /\ lastQdrant' = [op |-> "deleteBM25Model", collection |-> collectionName,
                    ok |-> TRUE]
  /\ UNCHANGED <<qdrantCollections, bm25Generator>>

\* The sparse query hybridSearch sends for a text: empty when the generator
\* is not trained.
sparseQuery(textQuery) ==
  IF bm25Generator.trained THEN generate(bm25Generator, textQuery, NoConfig)
  ELSE [indices |-> << >>, values |-> << >>]

\* hybridSearch(collectionName, [dense request, text request]): the query
\* that goes to the server, dense only when the sparse query is empty.
QdrantHybridSearch(collectionName, denseQuery, textQuery) ==
  IF collectionName \notin DOMAIN qdrantCollections
    THEN QdrantThrows("hybridSearch", collectionName)
  ELSE /\ lastQdrant' =
            [op |-> "hybridSearch", collection |-> collectionName, ok |-> TRUE,
             text |-> textQuery, dense |-> denseQuery,
             sparse |-> sparseQuery(textQuery),
             denseOnly |-> Len(sparseQuery(textQuery).indices) = 0]
       /\ UNCHANGED <<qdrantCollections, qdrantModelFiles, bm25Generator>>

\* Two hybrid collections of one store.
QdrantCollectionNames == {"hybrid_a", "hybrid_b"}

\* The corpora the generator is trained on.
QdrantCorpora == { <<Text(1)>>, <<Text(2), Text(3)>> }

\* The two collections are created, trained for, filled, searched and
\* dropped through one QdrantVectorDatabase.
QdrantNext ==
  \/ \E c \in QdrantCollectionNames :
        QdrantCreateHybridCollection(c, Dimension) /\ UNCHANGED exceptQdrant
  \/ \E c \in QdrantCollectionNames :
        QdrantDropCollection(c) /\ UNCHANGED exceptQdrant
  \/ \E corpus \in QdrantCorpora :
        QdrantGetBM25GeneratorLearn(corpus) /\ UNCHANGED exceptQdrant
  \/ \E c \in QdrantCollectionNames, v \in 1..NumTexts :
        QdrantInsertHybrid(c, <<Doc(1, v)>>) /\ UNCHANGED exceptQdrant
  \/ \E c \in QdrantCollectionNames :
        QdrantDelete(c, {1}) /\ UNCHANGED exceptQdrant
  \/ \E c \in QdrantCollectionNames : saveBM25Model(c) /\ UNCHANGED exceptQdrant
  \/ \E c \in QdrantCollectionNames : loadBM25Model(c) /\ UNCHANGED exceptQdrant
  \/ \E c \in QdrantCollectionNames : deleteBM25Model(c) /\ UNCHANGED exceptQdrant
  \/ \E c \in QdrantCollectionNames, t \in QueryTexts :
        QdrantHybridSearch(c, <<1, 1>>, t) /\ UNCHANGED exceptQdrant

(***************************************************************************)
(* saveBM25 and saveBM25Model write the model with one fs.writeFile(path,  *)
(* json): the file is opened for writing, which empties it, the text is    *)
(* written piece by piece, and the file is closed.  The process may die    *)
(* and the file may be read between any two of these steps.                *)
(***************************************************************************)

NoFile == [exists |-> FALSE]

Idle == [busy |-> FALSE]

\* Number of pieces the text of a model is written in.
WritePieces == 2

\* The models saved: the generator after each training.
SavedModels == { toJSON(learn(NewSimpleBM25, corpus)) : corpus \in QdrantCorpora }

\* The first n pieces of the text of a model.
Bytes(json, n) == [exists |-> TRUE, of |-> json, pieces |-> n]

\* The file holds the whole text of a model.
Complete(file) == file.exists /\ file.pieces = WritePieces

FileInit ==
  /\ bm25Path = NoFile
  /\ writeFileCall = Idle
  /\ lastRead = [op |-> "none"]

\* saveBM25: fs.writeFile(bm25Path, bm25.toJSON(), "utf-8") opens the file,
\* which truncates it.
saveBM25Open(json) ==
  /\ ~writeFileCall.busy
  /\ writeFileCall' = [busy |-> TRUE, data |-> json, written |-> 0]
  /\ bm25Path' = Bytes(json, 0)
  /\ UNCHANGED lastRead

\* The next piece of the text reaches the file.
saveBM25Write ==
  /\ writeFileCall.busy /\ writeFileCall.written < WritePieces
  /\ writeFileCall' = [writeFileCall EXCEPT !.written = @ + 1]
  /\ bm25Path' = Bytes(writeFileCall.data, writeFileCall.written + 1)
  /\ UNCHANGED lastRead

\* The text is written: the file is closed and saveBM25 returns.
saveBM25Close ==
  /\ writeFileCall.busy /\ writeFileCall.written = WritePieces
  /\ writeFileCall' = Idle
  /\ UNCHANGED <<bm25Path, lastRead>>

\* The process dies: the call is gone, the file stays as it is.
ProcessDies ==
  /\ writeFileCall.busy
  /\ writeFileCall' = Idle
  /\ UNCHANGED <<bm25Path, lastRead>>

\* doEnsureLoaded of another store object: pathExists, then readFile.
readBM25 ==
  /\ lastRead' = [op |-> "readFile", file |-> bm25Path,
                  duringWrite |-> writeFileCall.busy]
  /\ UNCHANGED <<bm25Path, writeFileCall>>

ModelFileNext ==
  \/ \E json \in SavedModels : saveBM25Open(json) /\ UNCHANGED exceptFile
  \/ saveBM25Write /\ UNCHANGED exceptFile
  \/ saveBM25Close /\ UNCHANGED exceptFile
  \/ ProcessDies /\ UNCHANGED exceptFile
  \/ readBM25 /\ UNCHANGED exceptFile

(***************************************************************************)
(* GeminiEmbedding: embed and embedBatch over a provider that fails its    *)
(* first calls, its batch calls or all calls.  A request is recorded with  *)
(* the provider calls and the waits it made, in their order.               *)
(***************************************************************************)

DefaultMaxRetries == 3

DefaultBaseDelay == 1000

MaxBackoff == 10000

FALLBACK_DELAY_MS == 100

EmbedInit ==
  /\ maxRetries = DefaultMaxRetries
  /\ baseDelay = DefaultBaseDelay
  /\ lastEmbed = [op |-> "none"]

\* The errors the provider throws, and the one thrown for a response
\* without embeddings.
RateLimited == [status |-> 429, code |-> "", message |-> "Rate limit exceeded"]

Unauthorized == [status |-> 401, code |-> "", message |-> "Invalid API key"]

\* The provider answers without embeddings.
NoEmbeddings == [status |-> 0, code |-> "", message |-> "no embeddings"]

InvalidResponse ==
  [status |-> 0, code |-> "", message |-> "Gemini API returned invalid response"]

\* The retryable patterns the lower-cased message includes.
PatternsIn(message) ==
  CASE message = "Rate limit exceeded" -> {"rate limit"}
    [] message = "Connection timeout" -> {"timeout", "connection"}
    [] OTHER -> {}

isRetryableError(error) ==
  \/ error.code \in {"ECONNREFUSED", "ETIMEDOUT", "ENOTFOUND", "EAI_AGAIN"}
  \/ error.status \in {429, 500, 502, 503, 504}
  \/ PatternsIn(error.message) # {}

\* preprocessText(text): an empty text becomes a blank.
preprocessText(text) == IF text = "" THEN " " ELSE text

preprocessTexts(texts) == [i \in 1..Len(texts) |-> preprocessText(texts[i])]

\* What a request did, in order: a call of the provider or a wait.
Call(contents, batch) ==
  [kind |-> "call", contents |-> contents, batch |-> batch, ms |-> 0]

Sleep(ms) == [kind |-> "sleep", contents |-> << >>, batch |-> FALSE, ms |-> ms]

Calls(events) == SelectSeq(events, LAMBDA e : e.kind = "call")

\* client.models.embedContent as the k-th call of a request: the provider
\* fails its first failFirst calls, or every call, or every batch call, and
\* otherwise answers with one embedding per content, in order.
embedContent(provider, k, contents, batch) ==
  IF provider.always \/ k <= provider.failFirst \/ (batch /\ provider.batchFails)
    THEN IF provider.failure = NoEmbeddings
           THEN [thrown |-> FALSE, hasEmbeddings |-> FALSE, embeddings |-> << >>]
         ELSE [thrown |-> TRUE, error |-> provider.failure]
  ELSE [thrown |-> FALSE, hasEmbeddings |-> TRUE,
        embeddings |-> [i \in 1..Len(contents) |-> [values |-> <<contents[i]>>]]]

\* The operation embed and embedBatch hand to executeWithRetry.
operation(provider, k, contents, batch) ==
  LET response == embedContent(provider, k, contents, batch)
  IN  IF response.thrown THEN [ok |-> FALSE, error |-> response.error]
      ELSE IF ~response.hasEmbeddings THEN [ok |-> FALSE, error |-> InvalidResponse]
      ELSE [ok |-> TRUE,
            value |-> [i \in 1..Len(response.embeddings) |->
                         [vector |-> response.embeddings[i].values,
                          dimension |-> Len(response.embeddings[i].values)]]]

Min(a, b) == IF a < b THEN a ELSE b

\* The wait before the retry that follows attempt: never capped.
BackoffUncapped(attempt) == baseDelay * 2 ^ attempt

\* The wait before the retry that follows attempt.
Backoff(attempt) == Min(baseDelay * 2 ^ attempt, MaxBackoff)

\* executeWithRetry(operation, context), from the given attempt on.
RECURSIVE executeWithRetry(_, _, _, _, _, _)
executeWithRetry(provider, contents, batch, context, attempt, events) ==
  LET r == operation(provider, Len(Calls(events)) + 1, contents, batch)
      called == Append(events, Call(contents, batch))
  IN  IF r.ok THEN [ok |-> TRUE, value |-> r.value, events |-> called]
      ELSE IF ~isRetryableError(r.error)
        THEN [ok |-> FALSE, error |-> [message |-> context, cause |-> r.error],
              events |-> called]
      ELSE IF attempt = maxRetries
        THEN [ok |-> FALSE, error |-> [message |-> context, cause |-> r.error],
              events |-> called]
      ELSE executeWithRetry(provider, contents, batch, context, attempt + 1,
                            Append(called, Sleep(Backoff(attempt))))

\* embed(text), after the events of the request so far.
embed(provider, text, events) ==
  LET r == executeWithRetry(provider, <<preprocessText(text)>>, FALSE,
                            "Gemini embedding failed", 0, events)
  IN  IF r.ok THEN [r EXCEPT !.value = r.value[1]] ELSE r

\* The wait before the i-th individual request: none.
FallbackDelayNone(i) == << >>

\* The wait before the i-th individual request: none before the first.
FallbackDelay(i) == IF i > 1 THEN <<Sleep(FALLBACK_DELAY_MS)>> ELSE << >>

\* The catch branch of embedBatch: the texts one by one, from the i-th on.
RECURSIVE Fallback(_, _, _, _, _)
Fallback(provider, processedTexts, i, results, events) ==
  IF i > Len(processedTexts)
    THEN [ok |-> TRUE, value |-> results, events |-> events]
  ELSE LET r == embed(provider, processedTexts[i], events \o FallbackDelay(i))
       IN  IF r.ok
             THEN Fallback(provider, processedTexts, i + 1,
                           Append(results, r.value), r.events)
           ELSE [ok |-> FALSE,
                 error |-> [message |-> "Gemini batch embedding failed (both batch and individual attempts failed)",
                            cause |-> r.error],
                 events |-> r.events]

\* embedBatch(texts)
embedBatch(provider, texts) ==
  LET processedTexts == preprocessTexts(texts)
      r == executeWithRetry(provider, processedTexts, TRUE,
                            "Gemini batch embedding failed", 0, << >>)
  IN  IF r.ok THEN r
      ELSE Fallback(provider, processedTexts, 1, << >>, r.events)

\* What is recorded of a request.
Returned(op, texts, provider, r) ==
  IF r.ok
    THEN [op |-> op, texts |-> texts, provider |-> provider, ok |-> TRUE,
          value |-> r.value, events |-> r.events,
          maxRetries |-> maxRetries, baseDelay |-> baseDelay]
  ELSE [op |-> op, texts |-> texts, provider |-> provider, ok |-> FALSE,
        error |-> r.error, events |-> r.events,
        maxRetries |-> maxRetries, baseDelay |-> baseDelay]

GeminiEmbed(provider, text) ==
  /\ lastEmbed' = Returned("embed", <<text>>, provider, embed(provider, text, << >>))
  /\ UNCHANGED <<maxRetries, baseDelay>>

GeminiEmbedBatch(provider, texts) ==
  /\ lastEmbed' = Returned("embedBatch", texts, provider, embedBatch(provider, texts))
  /\ UNCHANGED <<maxRetries, baseDelay>>

\* setMaxRetries(n), n >= 0
setMaxRetries(n) ==
  /\ maxRetries' = n
  /\ UNCHANGED <<baseDelay, lastEmbed>>

\* setBaseDelay(ms), ms > 0
setBaseDelay(ms) ==
  /\ baseDelay' = ms
  /\ UNCHANGED <<maxRetries, lastEmbed>>

\* The most calls a provider fails before it answers.
MaxFailures == 4

\* What a provider fails with.
Failures == {RateLimited, Unauthorized, NoEmbeddings}

\* The providers: they fail their first calls, or every batch call, or
\* every call.
Providers ==
  { [failure |-> f, failFirst |-> n, batchFails |-> FALSE, always |-> FALSE] :
      f \in Failures, n \in 0..MaxFailures }
  \cup { [failure |-> f, failFirst |-> 0, batchFails |-> TRUE, always |-> FALSE] :
           f \in Failures }
  \cup { [failure |-> f, failFirst |-> 0, batchFails |-> FALSE, always |-> TRUE] :
           f \in Failures }

EmbedTexts == {"", "t1"}

EmbedBatches == { << >>, <<"t1">>, <<"t1", "t2">>, <<"t2", "", "t1">> }

EmbeddingNext ==
  \/ \E provider \in Providers, text \in EmbedTexts :
        GeminiEmbed(provider, text) /\ UNCHANGED exceptEmbedding
  \/ \E provider \in Providers, texts \in EmbedBatches :
        GeminiEmbedBatch(provider, texts) /\ UNCHANGED exceptEmbedding
  \/ \E n \in {0, 1, DefaultMaxRetries} : setMaxRetries(n) /\ UNCHANGED exceptEmbedding
  \/ \E ms \in {DefaultBaseDelay, 5 * DefaultBaseDelay} :
        setBaseDelay(ms) /\ UNCHANGED exceptEmbedding

(***************************************************************************)
(* HuggingFaceEmbedding: the model is loaded on first use.  A request runs *)
(* up to its first await in one step and goes on when the promise it waits *)
(* for is settled.                                                         *)
(***************************************************************************)

\* The requests that can be under way at the same time.
Requesters == {1, 2, 3}

\* Number of loadModel calls after which no further load is started.
MaxLoads == 3

NoRequest == [pc |-> "idle"]

HFInit ==
  /\ loadedModel = FALSE
  /\ modelLoading = 0
  /\ loadPromises = << >>
  /\ requests = [r \in Requesters |-> NoRequest]

\* ensureModel() without the wait for a load in progress.
ensureModelAlone(r, op) ==
  /\ requests[r].pc = "idle"
  /\ IF loadedModel
       THEN /\ requests' = [requests EXCEPT ![r] =
                 [pc |-> "loaded", op |-> op, awaits |-> 0]]
            /\ UNCHANGED <<modelLoading, loadPromises>>
     ELSE /\ Len(loadPromises) < MaxLoads
          /\ loadPromises' = Append(loadPromises, "pending")
          /\ modelLoading' = Len(loadPromises) + 1
          /\ requests' = [requests EXCEPT ![r] =
               [pc |-> "awaitLoad", op |-> op, awaits |-> Len(loadPromises) + 1]]
  /\ UNCHANGED loadedModel

\* embed(text), embedBatch(texts) or preload() up to the await in
\* ensureModel(): nothing to wait for when the model is there, the load in
\* progress when there is one, a load of its own otherwise.
ensureModel(r, op) ==
  /\ requests[r].pc = "idle"
  /\ IF loadedModel
       THEN /\ requests' = [requests EXCEPT ![r] =
                 [pc |-> "loaded", op |-> op, awaits |-> 0]]
            /\ UNCHANGED <<modelLoading, loadPromises>>
     ELSE IF modelLoading # 0
       THEN /\ requests' = [requests EXCEPT ![r] =
                 [pc |-> "awaitLoad", op |-> op, awaits |-> modelLoading]]
            /\ UNCHANGED <<modelLoading, loadPromises>>
     ELSE /\ Len(loadPromises) < MaxLoads
          /\ loadPromises' = Append(loadPromises, "pending")
          /\ modelLoading' = Len(loadPromises) + 1
          /\ requests' = [requests EXCEPT ![r] =
               [pc |-> "awaitLoad", op |-> op, awaits |-> Len(loadPromises) + 1]]
  /\ UNCHANGED loadedModel

\* loadModel(): the tokenizer and the model arrive.
loadModelResolves(n) ==
  /\ n \in 1..Len(loadPromises) /\ loadPromises[n] = "pending"
  /\ loadPromises' = [loadPromises EXCEPT ![n] = "fulfilled"]
  /\ loadedModel' = TRUE
  /\ UNCHANGED <<modelLoading, requests>>

\* loadModel(): the import or a from_pretrained fails; modelLoading is reset.
loadModelRejects(n) ==
  /\ n \in 1..Len(loadPromises) /\ loadPromises[n] = "pending"
  /\ loadPromises' = [loadPromises EXCEPT ![n] = "rejected"]
  /\ modelLoading' = 0
  /\ UNCHANGED <<loadedModel, requests>>

\* The request goes on after its await: it fails with the error of the load,
\* or runs the model, or (preload) returns.
afterEnsureModel(r) ==
  /\ requests[r].pc \in {"awaitLoad", "loaded"}
  /\ requests[r].pc = "awaitLoad" =>
       loadPromises[requests[r].awaits] # "pending"
  /\ requests' = [requests EXCEPT ![r] =
       IF @.pc = "awaitLoad" /\ loadPromises[@.awaits] = "rejected"
         THEN [@ EXCEPT !.pc = "rejected"]
       ELSE IF ~loadedModel
         THEN [@ EXCEPT !.pc = "rejected"]
       ELSE [@ EXCEPT !.pc = "returned"]]
  /\ UNCHANGED <<loadedModel, modelLoading, loadPromises>>

\* embedBatch([]): returns [] before ensureModel().
embedBatchOfNothing(r) ==
  /\ requests[r].pc = "idle"
  /\ requests' = [requests EXCEPT ![r] =
       [pc |-> "returned", op |-> "embedBatch", awaits |-> 0]]
  /\ UNCHANGED <<loadedModel, modelLoading, loadPromises>>

\* The caller has its answer; it may ask again.
requestSettled(r) ==
  /\ requests[r].pc \in {"returned", "rejected"}
  /\ requests' = [requests EXCEPT ![r] = NoRequest]
  /\ UNCHANGED <<loadedModel, modelLoading, loadPromises>>

HuggingFaceNext ==
  \/ \E r \in Requesters, op \in {"embed", "embedBatch", "preload"} :
        ensureModel(r, op) /\ UNCHANGED exceptHuggingFace
  \/ \E n \in 1..MaxLoads : loadModelResolves(n) /\ UNCHANGED exceptHuggingFace
  \/ \E n \in 1..MaxLoads : loadModelRejects(n) /\ UNCHANGED exceptHuggingFace
  \/ \E r \in Requesters : afterEnsureModel(r) /\ UNCHANGED exceptHuggingFace
  \/ \E r \in Requesters : embedBatchOfNothing(r) /\ UNCHANGED exceptHuggingFace
  \/ \E r \in Requesters : requestSettled(r) /\ UNCHANGED exceptHuggingFace

(***************************************************************************)
(* BaseVectorDatabase: the constructor starts initialize() and keeps its   *)
(* promise; an operation of the store awaits it through                    *)
(* ensureInitialized().  The operations are those of LibSQLVectorDatabase. *)
(***************************************************************************)

\* The calls that can be under way at the same time.
Callers == {1, 2}

AwaitingOperations ==
  {"createCollection", "createHybridCollection", "dropCollection",
   "hasCollection", "listCollections", "insert", "insertHybrid", "search",
   "hybridSearch", "delete", "query"}

InitializationError == "Failed to initialize LibSQL storage"

NoOperation == [pc |-> "idle"]

\* new LibSQLVectorDatabase(config): initialize() is under way.
BaseInit ==
  /\ initializationPromise = "pending"
  /\ storageReady = FALSE
  /\ operations = [c \in Callers |-> NoOperation]

\* initialize(): fs.ensureDir(storageDir) succeeds.
initializeResolves ==
  /\ initializationPromise = "pending"
  /\ initializationPromise' = "fulfilled"
  /\ storageReady' = TRUE
  /\ UNCHANGED operations

\* initialize(): fs.ensureDir(storageDir) fails and the error is thrown on.
initializeRejects ==
  /\ initializationPromise = "pending"
  /\ initializationPromise' = "rejected"
  /\ UNCHANGED <<storageReady, operations>>

\* An operation of the store up to its await of ensureInitialized().
ensureInitialized(c, op) ==
  /\ operations[c].pc = "idle"
  /\ op \in AwaitingOperations
  /\ operations' = [operations EXCEPT ![c] = [pc |-> "awaitInit", op |-> op]]
  /\ UNCHANGED <<initializationPromise, storageReady>>

\* The operation goes on after the await: it rejects with the error of
\* initialize(), or does its work on the store.
afterEnsureInitialized(c) ==
  /\ operations[c].pc = "awaitInit"
  /\ initializationPromise # "pending"
  /\ operations' = [operations EXCEPT ![c] =
       IF initializationPromise = "rejected"
         THEN [pc |-> "rejected", op |-> @.op, error |-> InitializationError]
       ELSE [pc |-> "returned", op |-> @.op, ready |-> storageReady,
             initialization |-> initializationPromise]]
  /\ UNCHANGED <<initializationPromise, storageReady>>

\* checkCollectionLimit(): returns true.
checkCollectionLimit(c) ==
  /\ operations[c].pc = "idle"
  /\ operations' = [operations EXCEPT ![c] =
       [pc |-> "returned", op |-> "checkCollectionLimit",
        ready |-> storageReady, initialization |-> initializationPromise]]
  /\ UNCHANGED <<initializationPromise, storageReady>>

\* The caller has its answer; it may call again.
operationSettled(c) ==
  /\ operations[c].pc \in {"returned", "rejected"}
  /\ operations' = [operations EXCEPT ![c] = NoOperation]
  /\ UNCHANGED <<initializationPromise, storageReady>>

BaseNext ==
  \/ initializeResolves /\ UNCHANGED exceptBase
  \/ initializeRejects /\ UNCHANGED exceptBase
  \/ \E c \in Callers, op \in AwaitingOperations :
        ensureInitialized(c, op) /\ UNCHANGED exceptBase
  \/ \E c \in Callers : afterEnsureInitialized(c) /\ UNCHANGED exceptBase
  \/ \E c \in Callers : checkCollectionLimit(c) /\ UNCHANGED exceptBase
  \/ \E c \in Callers : operationSettled(c) /\ UNCHANGED exceptBase

(***************************************************************************)
(* MerkleDAG: nodes keyed by the hash of their data, and the list of the   *)
(* roots.                                                                  *)
(***************************************************************************)

\* The data of the nodes that are added.
NodeData == {"a", "b", "c"}

\* The id of a node: a digest of its data alone.
hash(data) == "#" \o data

\* addNode(data) without a parent.
NoParent == "undefined"

\* The parent ids that are passed: ids of nodes, and one of no node.
ParentIds == {hash(d) : d \in NodeData} \cup {"non-existent-parent"}

\* Number of edges after which no further edge is recorded.
MaxEdges == 3

DAGInit ==
  /\ nodes = EmptyMap
  /\ rootIds = << >>
  /\ lastAdd = [data |-> "", parent |-> NoParent, id |-> ""]

\* The edges of the graph, as the parents lists hold them.
Edges(ns) ==
  {<<p, c>> \in (DOMAIN ns) \X (DOMAIN ns) : p \in Range(ns[c].parents)}

\* push(x) on a list that holds no value twice.
AppendNew(list, x) == IF x \in Range(list) THEN list ELSE Append(list, x)

\* nodes after addNode(data, parentId): the node is inserted unless it is
\* there, and the edge is recorded when the parent is there.
nodesAfterAdd(ns, data, parentId) ==
  LET nodeId == hash(data)
      had == nodeId \in DOMAIN ns
      with == IF had THEN ns
              ELSE MapSet(ns, nodeId,
                     [id |-> nodeId, data |-> data, parents |-> << >>,
                      children |-> << >>])
  IN IF parentId # NoParent /\ parentId \in DOMAIN ns
       THEN LET child == [with EXCEPT ![nodeId].parents = AppendNew(@, parentId)]
            IN [child EXCEPT ![parentId].children = AppendNew(@, nodeId)]
     ELSE with

\* rootIds after addNode(data, parentId) where a new node whose parent is
\* absent counts as one added without parent.
rootIdsRootingOrphans(ns, roots, data, parentId) ==
  IF hash(data) \notin DOMAIN ns
       /\ (parentId = NoParent \/ parentId \notin DOMAIN ns)
    THEN Append(roots, hash(data))
  ELSE roots

\* rootIds after addNode(data, parentId): a new node added without parent
\* is appended.
rootIdsAfterAdd(ns, roots, data, parentId) ==
  IF parentId = NoParent /\ hash(data) \notin DOMAIN ns
    THEN Append(roots, hash(data))
  ELSE roots

\* addNode(data, parentId?)
addNode(data, parentId) ==
  /\ Cardinality(Edges(nodesAfterAdd(nodes, data, parentId))) <= MaxEdges
  /\ nodes' = nodesAfterAdd(nodes, data, parentId)
  /\ rootIds' = rootIdsAfterAdd(nodes, rootIds, data, parentId)
  /\ lastAdd' = [data |-> data, parent |-> parentId, id |-> hash(data)]

\* getRootNodes()
getRootNodes == [i \in 1..Len(rootIds) |-> nodes[rootIds[i]]]

DAGNext ==
  \/ \E data \in NodeData : addNode(data, NoParent) /\ UNCHANGED exceptDAG
  \/ \E data \in NodeData, parentId \in ParentIds :
        addNode(data, parentId) /\ UNCHANGED exceptDAG

Init ==
  /\ RegInit /\ StoreInit /\ FaissInit /\ SyncInit /\ PipeInit /\ GenInit
  /\ QdrantInit /\ FileInit /\ EmbedInit /\ HFInit /\ BaseInit /\ DAGInit

\* The registry alone.
SpecRegistry ==
  Init /\ [][RegNext]_vars

\* The store alone, driven directly.
SpecSetters == Init /\ [][SetterNext]_vars

SpecGenerator == Init /\ [][GeneratorNext]_vars

SpecFilter == Init /\ [][FilterNext]_vars

SpecDrop == Init /\ [][DropNext]_vars

SpecQdrant == Init /\ [][QdrantNext]_vars

SpecModelFile == Init /\ [][ModelFileNext]_vars

SpecEmbedding == Init /\ [][EmbeddingNext]_vars

SpecHuggingFace == Init /\ [][HuggingFaceNext]_vars

SpecBase == Init /\ [][BaseNext]_vars

SpecDAG == Init /\ [][DAGNext]_vars

SpecInsert == Init /\ [][InsertNext]_vars

SpecLifecycle == Init /\ [][LifecycleNext]_vars

SpecIndexingSearch == Init /\ [][IndexingSearchNext]_vars

SpecReconcile == Init /\ [][ReconcileNext]_vars

SpecSearch == Init /\ [][SearchNext]_vars

SpecFaissSearch == Init /\ [][FaissSearchNext]_vars

SpecStore == Init /\ [][StoreNext]_vars

SpecHybridStore == Init /\ [][HybridStoreNext]_vars

SpecFaiss == Init /\ [][FaissNext]_vars

SpecSync == Init /\ [][SyncNext]_vars

SpecReindex == Init /\ [][ReindexNext]_vars

SpecFullIndex == Init /\ [][FullIndexNext]_vars

SpecPipeline == Init /\ [][PipelineNext]_vars

(***************************************************************************)
(* Claims about the registry.                                              *)
(***************************************************************************)

\* The entry setCodebaseIndexed(path, stats) writes.
IndexedInfo(stats) ==
  [status |-> "indexed", indexedFiles |-> stats.indexedFiles,
   totalChunks |-> stats.totalChunks, indexStatus |-> stats.status]

\* C1: immediately after a registry mutation returns (set indexing, set
\* indexed, set failed) the reads (list, lookup, progress) return the state
\* just written, whatever the registry file holds: after
\* setCodebaseIndexed(p, s), getIndexedCodebases() contains p and
\* getCodebaseInfo(p) is indexed(s).
C1_InMemoryFreshness ==
  /\ lastReg.op = "setCodebaseIndexed" =>
        /\ lastReg.path \in getIndexedCodebases
        /\ lastReg.path \notin getIndexingCodebases
        /\ getCodebaseInfo(lastReg.path) = IndexedInfo(lastReg.stats)
        /\ getCodebaseStatus(lastReg.path) = "indexed"
        /\ getIndexingProgress(lastReg.path) = UndefinedNumber
  /\ lastReg.op = "setCodebaseIndexing" =>
        /\ lastReg.path \in getIndexingCodebases
        /\ getIndexingProgress(lastReg.path) = lastReg.progress
        /\ getCodebaseInfo(lastReg.path) =
             [status |-> "indexing", indexingPercentage |-> lastReg.progress]
        /\ getCodebaseStatus(lastReg.path) = "indexing"
  /\ lastReg.op = "setCodebaseIndexFailed" =>
        /\ lastReg.path \in getFailedCodebases
        /\ getCodebaseInfo(lastReg.path) =
             [status |-> "indexfailed", errorMessage |-> lastReg.errorMessage,
              lastAttemptedPercentage |-> lastReg.lastAttemptedPercentage]
        /\ getCodebaseStatus(lastReg.path) = "indexfailed"

\* C1 witness: setCodebaseIndexed has returned for a path that was being
\* indexed, the registry file still shows the path as indexing, and the
\* list read already contains the path.
C1_Witness ==
  /\ lastReg.op = "setCodebaseIndexed"
  /\ lastReg.path \in DOMAIN registryDisk
  /\ registryDisk[lastReg.path].status = "indexing"
  /\ lastReg.path \in getIndexedCodebases

(***************************************************************************)
(* Claims about the store.                                                 *)
(***************************************************************************)

\* The filters, output fields and limits of the queries the claims range over.
QueryFilters ==
  { EmptyFilter,
    [expr |-> "==", field |-> "relativePath", value |-> "a.ts"],
    [expr |-> "in", field |-> "id", values |-> ChunkIds] }

QueryLimits == {UndefinedNumber, 1, 2 * BigBatchSize}

\* The ids query(name, filter, ["id"], limit) returns.
QueriedIds(collectionName, filter, limit) ==
  LET result == query(collectionName, filter, {"id"}, limit)
  IN  {result[k].id : k \in 1..Len(result)}

\* C2: after insert(C, D) has returned, query(C, "", ["id"]) with the empty
\* filter and no limit argument contains every id of D, for every batch D and
\* every prior content of the collection.
C2_InsertedIdsQueryable ==
  lastStore.op = "insert" /\ lastStore.ok =>
    \A i \in 1..Len(lastStore.documents) :
      lastStore.documents[i].id
        \in QueriedIds(lastStore.collection, EmptyFilter, UndefinedNumber)

\* C3: after delete(C, ids) has returned, none of the given ids appears in
\* the result of any query on C, and every chunk whose id was not given is
\* still stored, unchanged.
C3_DeletedIdsGone ==
  lastStore.op = "delete" /\ lastStore.ok =>
    LET rows == dbFiles[lastStore.collection].documents
        ids == Range(lastStore.ids)
    IN  /\ \A filter \in QueryFilters, limit \in QueryLimits :
             QueriedIds(lastStore.collection, filter, limit) \cap ids = {}
        /\ \A i \in 1..Len(rows) : rows[i].id \notin ids
        /\ \A i \in 1..Len(lastStore.before) :
             lastStore.before[i].id \notin ids =>
               /\ lastStore.before[i] \in Range(rows)
               /\ lastStore.before[i].id
                    \in QueriedIds(lastStore.collection, EmptyFilter, 2 * BigBatchSize)

\* C3 witness: delete has returned after removing a stored chunk while a
\* chunk of another id stays.
C3_Witness ==
  /\ lastStore.op = "delete" /\ lastStore.ok
  /\ \E i \in 1..Len(lastStore.before) : lastStore.before[i].id \in Range(lastStore.ids)
  /\ \E i \in 1..Len(lastStore.before) : lastStore.before[i].id \notin Range(lastStore.ids)
  /\ Len(dbFiles[lastStore.collection].documents) > 0

\* The stored row of chunk id.
RowOf(rows, id) == rows[CHOOSE k \in 1..Len(rows) : rows[k].id = id]

\* C7: insertHybrid stores no sparse vector of the batch that was generated
\* before the model was retrained: when it has returned, the model is trained,
\* it knows every term of the batch, and the sparse vector stored for every
\* chunk of the batch is the one the retrained model generates for it.
C7_SparseFromRetrainedModel ==
  lastStore.op = "insertHybrid" /\ lastStore.ok =>
    LET rows == dbFiles[lastStore.collection].documents
        bm25 == bm25Generators[lastStore.collection]
        documents == lastStore.documents
    IN  /\ bm25.trained
        /\ \A i \in 1..Len(documents) :
             /\ Range(tokenize(bm25, documents[i].content)) \subseteq DOMAIN bm25.vocabulary
             /\ \E k \in 1..Len(rows) : rows[k].id = documents[i].id
             /\ (\A j \in (i + 1)..Len(documents) : documents[j].id # documents[i].id)
                  => RowOf(rows, documents[i].id).sparse
                       = generate(bm25, documents[i].content, NoConfig)

\* C7 witness: insertHybrid has returned on a collection that already held a
\* chunk of another id, and a chunk of the batch is stored with a sparse
\* vector that has terms.
C7_Witness ==
  /\ lastStore.op = "insertHybrid" /\ lastStore.ok
  /\ LET rows == dbFiles[lastStore.collection].documents
     IN  /\ \E k \in 1..Len(rows) :
              \A i \in 1..Len(lastStore.documents) : lastStore.documents[i].id # rows[k].id
         /\ Len(RowOf(rows, lastStore.documents[1].id).sparse.indices) > 0

\* C9: after delete on a hybrid collection has returned, the model of the
\* collection, in memory and on disk (the model a fresh process loads), is
\* the model trained on exactly the contents still stored, whatever remains:
\* it is learn() of the remaining contents when there are some, and in every
\* case it knows no term that occurs in no stored content.
C9_ModelRetrainedFromRemaining ==
  (/\ lastStore.op = "delete" /\ lastStore.ok
   /\ dbFiles[lastStore.collection].metadata.isHybrid) =>
    LET contents == SelectContent(dbFiles[lastStore.collection].documents)
        inMemory == bm25Generators[lastStore.collection]
        onDisk == IF lastStore.collection \in DOMAIN bm25Files
                    THEN fromJSON(bm25Files[lastStore.collection])
                  ELSE NewSimpleBM25
        stored == UNION {Range(tokenize(inMemory, contents[i])) : i \in 1..Len(contents)}
    IN  \A bm25 \in {inMemory, onDisk} :
          /\ contents # << >> => bm25 = learn(NewSimpleBM25, contents)
          /\ DOMAIN bm25.vocabulary \subseteq stored

(***************************************************************************)
(* Claims about the FAISS store.                                           *)
(***************************************************************************)

\* The query vectors and topK values of the searches the claims range over.
SearchVectors == {Doc(i, v).vector : i \in ChunkIds, v \in 1..NumTexts}

SearchTopKs == {UndefinedNumber, 1, 2}

\* The chunk is stored in the collection exactly as given: its document is
\* in the Map and the vector under the label of its place is its vector.
StoredIdentically(collection, doc) ==
  \E k \in 1..Len(collection.documents) :
    /\ collection.documents[k].id = doc.id
    /\ collection.documents[k].content = doc.content
    /\ collection.documents[k].relativePath = doc.relativePath
    /\ k <= Len(collection.index)
    /\ collection.index[k] = doc.vector

\* C4: insert upserts by chunk id.  After an insert has returned the
\* collection holds one chunk per distinct id, the chunk of every id of the
\* batch is the one last given, and when every chunk of the batch was already
\* stored identically the insert changed nothing: the documents and the
\* result of every search are what they were.
C4_UpsertByChunkId ==
  lastFaiss.op = "insert" /\ lastFaiss.ok =>
    LET collection == faissCollections[lastFaiss.collection]
        documents == lastFaiss.documents
    IN  /\ \A i, j \in 1..Len(collection.documents) :
             collection.documents[i].id = collection.documents[j].id => i = j
        /\ \A i \in 1..Len(documents) :
             (\A j \in (i + 1)..Len(documents) : documents[j].id # documents[i].id)
               => \E k \in 1..Len(collection.documents) :
                    /\ collection.documents[k].id = documents[i].id
                    /\ collection.documents[k].content = documents[i].content
        /\ (\A i \in 1..Len(documents) : StoredIdentically(lastFaiss.before, documents[i]))
             => /\ collection.documents = lastFaiss.before.documents
                /\ \A q \in SearchVectors, k \in SearchTopKs :
                     FaissSearch(collection, q, k) = FaissSearch(lastFaiss.before, q, k)

\* The status an info map gives a path (getCodebaseStatus on that map).
StatusIn(infoMap, codebasePath) ==
  IF codebasePath \notin DOMAIN infoMap THEN "not_found"
  ELSE infoMap[codebasePath].status

\* The listed transitions of the status of one path.
ListedTransition(before, after, codebasePath) ==
  LET a == StatusIn(before, codebasePath)
      b == StatusIn(after, codebasePath)
  IN  \/ a = b /\ a # "indexing"
      \/ a = "not_found" /\ b = "indexing"
           /\ after[codebasePath].indexingPercentage = 0
      \/ a = "indexing" /\ b \in {"indexing", "indexed", "indexfailed"}
      \/ b = "not_found"
      \/ a = "indexfailed" /\ b = "indexing"
           /\ after[codebasePath].indexingPercentage = 0

\* C13: every step changes the status of every path by a listed transition
\* only: not_found -> indexing(0), indexing(p) -> indexing(p'), indexing ->
\* indexed, indexing -> failed, any -> not_found, failed -> indexing(0).
C13_ListedTransitionsOnly ==
  [][\A p \in CodebasePaths :
       ListedTransition(codebaseInfoMap, codebaseInfoMap', p)]_vars

\* The lists a path appears in.
ListsOf(codebasePath) ==
  {l \in {"indexing", "indexed", "failed"} :
     \/ l = "indexing" /\ codebasePath \in getIndexingCodebases
     \/ l = "indexed" /\ codebasePath \in getIndexedCodebases
     \/ l = "failed" /\ codebasePath \in getFailedCodebases}

\* C14: after any sequence of the three setters a path is in at most one of
\* the indexing, indexed and failed lists (and once in it), the path of the
\* last call is in the list of that call, the list a path is in is the one
\* of its status, and getIndexingProgress(path) is defined exactly while the
\* path is in the indexing list.
C14_OneListPerPath ==
  /\ \A p \in CodebasePaths :
       /\ Cardinality(ListsOf(p)) <= 1
       /\ ListsOf(p) = CASE getCodebaseStatus(p) = "indexing" -> {"indexing"}
                         [] getCodebaseStatus(p) = "indexed" -> {"indexed"}
                         [] getCodebaseStatus(p) = "indexfailed" -> {"failed"}
                         [] OTHER -> {}
       /\ (getIndexingProgress(p) # UndefinedNumber) <=> p \in getIndexingCodebases
  /\ \A i, j \in 1..Len(indexedCodebases) :
       indexedCodebases[i] = indexedCodebases[j] => i = j
  /\ lastReg.op = "setCodebaseIndexing" =>
       ListsOf(lastReg.path) = {"indexing"}
         /\ getIndexingProgress(lastReg.path) = lastReg.progress
  /\ lastReg.op = "setCodebaseIndexed" => ListsOf(lastReg.path) = {"indexed"}
  /\ lastReg.op = "setCodebaseIndexFailed" => ListsOf(lastReg.path) = {"failed"}

\* One path has just been set indexed while the other is indexing at 50.
C14_Witness ==
  /\ lastReg.op = "setCodebaseIndexed"
  /\ ListsOf(lastReg.path) = {"indexed"}
  /\ \E p \in CodebasePaths \ {lastReg.path} :
       ListsOf(p) = {"indexing"} /\ getIndexingProgress(p) = 50

\* C15: a sweep drops exactly the indexed entries whose collection is not
\* listed: every other entry is as it was before the sweep, the indexing
\* entries among them whatever the state of their collection, and a sweep
\* that follows a sweep over the same collections drops nothing.
C15_SweepDropsOrphanedIndexedOnly ==
  lastReg.op = "syncIndexedCodebasesFromCloud" =>
    LET gone == {p \in CodebasePaths :
                   /\ StatusIn(lastReg.info, p) = "indexed"
                   /\ getCollectionName(p) \notin lastReg.collections}
    IN  /\ DOMAIN codebaseInfoMap = DOMAIN lastReg.info \ gone
        /\ \A p \in DOMAIN codebaseInfoMap : codebaseInfoMap[p] = lastReg.info[p]
        /\ getIndexedCodebases = lastReg.indexed \ gone
        /\ indexingCodebases = lastReg.indexing
        /\ lastReg.sweeps >= 2 => gone = {} /\ codebaseInfoMap = lastReg.info

\* Three sweeps in a row have dropped an indexed entry and have kept an
\* indexing entry whose collection does not exist.
C15_Witness ==
  /\ lastReg.op = "syncIndexedCodebasesFromCloud"
  /\ lastReg.sweeps = MaxSweeps
  /\ lastReg.dropped # {}
  /\ \E p \in getIndexingCodebases : getCollectionName(p) \notin listCollections

(***************************************************************************)
(* Claims about the file synchronizer.                                     *)
(***************************************************************************)

\* C10: a checkForChanges() made while the tree has not changed since the
\* snapshot it diffs against was taken (by the check before it, or by the
\* initialize() before it) returns empty added, modified and removed sets.
C10_QuietCheckIsEmpty ==
  lastCheck.op = "checkForChanges" /\ lastCheck.quiet
    => lastCheck.changes = NoChanges

\* The second of two checks of a tree with files, nothing changed in between.
C10_Witness ==
  /\ lastCheck.op = "checkForChanges"
  /\ lastCheck.quiet
  /\ lastCheck.previous = "checkForChanges"
  /\ DOMAIN fsTree = Paths
  /\ synchronizers[Root] = Walk(fsTree)

\* The paths that differ between two trees, by their contents.
TreeDiff(old, new) ==
  [added |-> (DOMAIN new) \ (DOMAIN old),
   modified |-> {p \in (DOMAIN new) \cap (DOMAIN old) : new[p] # old[p]},
   removed |-> (DOMAIN old) \ (DOMAIN new)]

\* C11: every checkForChanges() reports exactly the paths whose content
\* differs between the tree as the previous check (or the walk of
\* initialize()) saw it and the tree now: a change is reported by the first
\* check after it and by no later one, also when the synchronizer that checks
\* is a new instance that loaded the persisted snapshot.
C11_EachChangeReportedOnce ==
  lastCheck.op = "checkForChanges"
    => lastCheck.changes = TreeDiff(lastCheck.since, lastCheck.tree)

\* The first check of a new instance that loaded the snapshot: it reports
\* the changes made since the snapshot was written and nothing older.
C11_Witness ==
  /\ lastCheck.op = "checkForChanges"
  /\ lastCheck.restarted
  /\ lastCheck.changes.modified # {}
  /\ lastCheck.since # EmptyMap
  /\ lastCheck.changes # TreeDiff(EmptyMap, lastCheck.tree)

(***************************************************************************)
(* Claims about the indexing pipeline.                                     *)
(***************************************************************************)

\* The store calls of the run so far that were deletes / inserts.
LoggedSteps(op) ==
  LET Is(e) == e.op = op IN SelectSeq(run.log, Is)

\* C5: within one reindexByChange no delete follows an insert, and once the
\* first insert has been issued no delete for a removed or modified path is
\* still to come.
C5_DeletesBeforeInserts ==
  run.kind = "reindex" =>
    /\ \A i, j \in 1..Len(run.log) :
         run.log[i].op = "insert" /\ run.log[j].op = "delete" => j < i
    /\ LoggedSteps("insert") # << >> => run.deletes = << >>

\* A finished reindex that deleted for a removed and for a modified file and
\* inserted the new content of the modified one.
C5_Witness ==
  /\ run.kind = "reindex"
  /\ ~run.active
  /\ run.changes.removed # {}
  /\ run.changes.modified # {}
  /\ Len(LoggedSteps("delete")) = 2
  /\ Len(LoggedSteps("insert")) >= 1

\* SELECT * FROM documents WHERE relative_path = path
RowsOfPath(rows, path) ==
  LET Of(row) == row.relative_path = path IN SelectSeq(rows, Of)

\* C6: when reindexByChange has returned, the collection holds no chunk of a
\* removed path; of a modified path it holds the chunks of the new content
\* and no others; and the chunks of the paths that did not change are the
\* ones it held when the reindex began.
C6_ReindexResult ==
  run.kind = "reindex" /\ ~run.active =>
    LET rows == dbFiles[getCollectionName(Root)].documents
        changes == run.changes
    IN  /\ \A p \in changes.removed : RowsOfPath(rows, p) = << >>
        /\ \A p \in changes.modified :
             LET stored == RowsOfPath(rows, p)
                 chunks == Chunks(p, run.tree[p])
             IN  {[id |-> stored[i].id, content |-> stored[i].content] :
                    i \in 1..Len(stored)}
                   = {[id |-> chunks[i].id, content |-> chunks[i].content] :
                        i \in 1..Len(chunks)}
        /\ \A p \in Paths \ (changes.added \cup changes.modified \cup changes.removed) :
             RowsOfPath(rows, p) = RowsOfPath(run.rowsAtStart, p)

\* C8: during a full index of a hybrid collection every sparse vector in the
\* collection is the one a model trained on the contents of all chunks of
\* the corpus generates for the chunk.
C8_TrainedOnWholeCorpus ==
  run.kind = "index" /\ run.hybrid /\ lastStore.op = "insertHybrid" /\ lastStore.ok =>
    LET rows == dbFiles[getCollectionName(Root)].documents
        corpus == ChunksOf(run.tree, DOMAIN run.tree)
    IN  \E model \in {learn(NewSimpleBM25,
                            [i \in 1..Len(corpus) |-> corpus[i].content])} :
          \A i \in 1..Len(rows) :
            rows[i].sparse = generate(model, rows[i].content, NoConfig)

IdsInOrder(entries) == [i \in 1..Len(entries) |-> entries[i].id]

\* The limit or topK in force: 10 when none is given.
LimitOf(n) == IF n = UndefinedNumber \/ n = 0 THEN 10 ELSE n

\* The last call was a hybrid search that returned.
HybridSearched == lastStore.op = "hybridSearch" /\ lastStore.ok

\* The sparse request of the last hybrid search yields no terms: the model
\* is untrained or knows none of the terms of the text.
NoSparseTerms ==
  LET c == lastStore.collection
      text == lastStore.searchRequests[2].data
  IN  IF c \notin DOMAIN bm25Generators THEN TRUE
      ELSE IF ~bm25Generators[c].trained THEN TRUE
      ELSE generate(bm25Generators[c], text, NoConfig).indices = << >>

\* C16 on the LibSQL store: a hybrid search whose sparse request yields no
\* terms returns, without an error, the ids the dense search returns for the
\* same vector with topK = limit, in the same order, which are also the ids
\* of a hybrid search with the dense request alone.
C16_LibSQLNoTermsIsDenseOnly ==
  (lastStore.op = "hybridSearch" /\ CanLoad(lastStore.collection)
     /\ NoSparseTerms) =>
    /\ lastStore.ok
    /\ IdsInOrder(lastStore.results)
         = IdsInOrder(searchResults(lastStore.collection,
                                    lastStore.searchRequests[1].data,
                                    [topK |-> lastStore.options.limit,
                                     threshold |-> UndefinedNumber]))
    /\ IdsInOrder(lastStore.results)
         = IdsInOrder(hybridSearchResults(lastStore.collection,
                                          <<lastStore.searchRequests[1]>>,
                                          lastStore.options))

\* A query of unknown terms only has been answered from a trained collection
\* of several rows with stored sparse vectors, under limit 1.
C16_LibSQLWitness ==
  /\ HybridSearched
  /\ lastStore.searchRequests[2].data = <<"zzz">>
  /\ bm25Generators[lastStore.collection].trained
  /\ lastStore.options.limit = 1
  /\ Len(lastStore.results) = 1
  /\ Len(dbFiles[lastStore.collection].documents) >= 2
  /\ \A i \in 1..Len(dbFiles[lastStore.collection].documents) :
       dbFiles[lastStore.collection].documents[i].sparse.indices # << >>

\* The sparse request of the last hybrid search of the FAISS store yields no
\* terms: the model of the collection is untrained or knows none of the
\* terms of the text.
FaissNoSparseTerms ==
  LET bm25 == faissCollections[lastFaiss.collection].bm25
  IN  IF ~bm25.trained THEN TRUE
      ELSE generate(bm25, lastFaiss.searchRequests[2].data, NoConfig).indices = << >>

\* C16: a hybrid search whose sparse request yields no terms raises no error
\* and returns the ids the dense search returns for the same vector with
\* topK = limit, in the same order.
C16_NoTermsIsDenseOnly ==
  (/\ lastFaiss.op = "hybridSearch"
   /\ lastFaiss.collection \in DOMAIN faissCollections
   /\ ~FaissNotHybrid(faissCollections[lastFaiss.collection])
   /\ FaissNoSparseTerms) =>
    /\ lastFaiss.ok
    /\ IdsInOrder(lastFaiss.results)
         = IdsInOrder(FaissSearch(faissCollections[lastFaiss.collection],
                                  lastFaiss.searchRequests[1].data,
                                  lastFaiss.options.limit))

\* The 1-based rank of an id in a list of scored entries: one more than the
\* number of entries that have a higher score, or the same score and an
\* earlier place.
RankIn(entries, id) ==
  LET pos == CHOOSE i \in 1..Len(entries) : entries[i].id = id
  IN  1 + Cardinality({j \in 1..Len(entries) :
            \/ ScoreLess(entries[pos].score, entries[j].score)
            \/ entries[j].score = entries[pos].score /\ j < pos})

\* RRF(id): the sum of 1 / (k + rank) over the lists the id is in.
RRF(dense, sparse, k, id) ==
  ScoreAdd(IF id \in Ids(dense)
             THEN [micro |-> DivMicro(1, k + RankIn(dense, id)), pico |-> 0]
           ELSE ScoreZero,
           IF id \in Ids(sparse)
             THEN [micro |-> DivMicro(1, k + RankIn(sparse, id)), pico |-> 0]
           ELSE ScoreZero)

\* The dense and the sparse list of the last hybrid search.
DenseList ==
  performDenseSearch(lastStore.collection, lastStore.searchRequests[1].data,
                     LimitOf(lastStore.options.limit))

SparseList ==
  performSparseSearch(lastStore.collection, lastStore.searchRequests[2].data)

\* C17: a hybrid search returns min(limit, candidates) distinct ids, each
\* with its RRF score (k = 60 when none is given), in non-increasing score
\* order, and no candidate left out has a strictly higher RRF score than a
\* returned one.
C17_TopLimitByRRF ==
  HybridSearched =>
    LET res == lastStore.results
        k == IF lastStore.options.k = UndefinedNumber THEN 60
             ELSE lastStore.options.k
        limit == LimitOf(lastStore.options.limit)
        candidates == Ids(DenseList) \cup Ids(SparseList)
    IN  /\ Len(res) = IF Cardinality(candidates) < limit
                        THEN Cardinality(candidates) ELSE limit
        /\ Cardinality(Ids(res)) = Len(res)
        /\ Ids(res) \subseteq candidates
        /\ \A i \in 1..Len(res) :
             res[i].score = RRF(DenseList, SparseList, k, res[i].id)
        /\ \A i, j \in 1..Len(res) :
             i < j => ~ScoreLess(res[i].score, res[j].score)
        /\ \A id \in candidates \ Ids(res) : \A i \in 1..Len(res) :
             ~ScoreLess(res[i].score, RRF(DenseList, SparseList, k, id))

\* A hybrid search under limit 1 has returned an id that is in both lists
\* and has left out a candidate of strictly lower RRF score.
C17_Witness ==
  /\ HybridSearched
  /\ lastStore.options.limit = 1
  /\ Len(lastStore.results) = 1
  /\ lastStore.results[1].id \in Ids(DenseList) \cap Ids(SparseList)
  /\ \E id \in (Ids(DenseList) \cup Ids(SparseList)) \ Ids(lastStore.results) :
       ScoreLess(RRF(DenseList, SparseList, 60, id), lastStore.results[1].score)

\* The pairs <<a, b>> of ids of equal RRF score with a placed before b, for
\* given requests over the collection as it is.
TiedBefore(collectionName, searchRequests, options) ==
  LET sorted == SortedRRF(collectionName, searchRequests, options)
  IN  {pr \in Ids(sorted) \X Ids(sorted) :
         \E i, j \in 1..Len(sorted) :
           /\ i < j
           /\ sorted[i].id = pr[1] /\ sorted[j].id = pr[2]
           /\ sorted[i].score = sorted[j].score}

\* C18: which of two ids of equal RRF score comes first depends on the ids
\* only: no other dense vector and query text, over the same collection
\* and under the same options, places the two the other way round while
\* their scores are equal.
C18_TieOrderByIdOnly ==
  HybridSearched =>
    \A pr \in TiedBefore(lastStore.collection, lastStore.searchRequests,
                         lastStore.options) :
      \A r \in SearchRequests :
        <<pr[2], pr[1]>> \notin TiedBefore(lastStore.collection, r, lastStore.options)

\* The last call was a dense search that returned.
Searched == lastStore.op = "search" /\ lastStore.ok

\* The stored vector of an id.
VectorOf(collectionName, id) ==
  LET rows == dbFiles[collectionName].documents
  IN  rows[CHOOSE i \in 1..Len(rows) : rows[i].id = id].dense_vector

\* C19: a dense search returns at most topK results (10 when none is given),
\* each with the score 1 / (1 + cosine distance) of its stored vector, in
\* non-increasing order of score and of cosine similarity; with a threshold
\* the results are those of the same search without one whose score is at
\* least the threshold.
C19_DenseSearchOrdered ==
  Searched =>
    LET res == lastStore.results
        c == lastStore.collection
        q == lastStore.queryVector
        threshold == lastStore.options.threshold
        AtLeast(e) == e.score.micro >= threshold
    IN  /\ Len(res) <= LimitOf(lastStore.options.topK)
        /\ \A i \in 1..Len(res) :
             res[i].score = DenseScore(VectorOf(c, res[i].id), q)
        /\ \A i, j \in 1..Len(res) :
             i < j => /\ ~ScoreLess(res[i].score, res[j].score)
                      /\ vector_distance_cos(VectorOf(c, res[i].id), q)
                           <= vector_distance_cos(VectorOf(c, res[j].id), q)
        /\ threshold # UndefinedNumber =>
             /\ \A i \in 1..Len(res) : res[i].score.micro >= threshold
             /\ res = SelectSeq(searchResults(c, q,
                                  [topK |-> lastStore.options.topK,
                                   threshold |-> UndefinedNumber]), AtLeast)

\* A search with threshold 0.7 over three rows has returned two results of
\* different scores and has dropped the third.
C19_Witness ==
  /\ Searched
  /\ lastStore.options.threshold = 700000
  /\ Len(dbFiles[lastStore.collection].documents) = 3
  /\ Len(lastStore.results) = 2
  /\ ScoreLess(lastStore.results[2].score, lastStore.results[1].score)

(***************************************************************************)
(* Claims about the sparse vectors of SimpleBM25.                          *)
(***************************************************************************)

\* A value of a sparse vector is greater than zero.
Positive(value, config) ==
  IF config.normalize THEN ScoreLess(ScoreZero, value) ELSE value > 0

\* C20: every sparse vector that generate returns has all its values greater
\* than zero, whatever the trained model, the text, and the minScore, maxTerms
\* and normalize of the configuration.
C20_SparseValuesPositive ==
  (lastBM25.op = "generate" /\ lastBM25.ok) =>
     \A i \in 1..Len(lastBM25.vector.values) :
        Positive(lastBM25.vector.values[i], lastBM25.config)

\* A vector of two different values was shifted, cut to maxTerms and
\* normalised.
C20_Witness ==
  /\ lastBM25.op = "generate" /\ lastBM25.ok
  /\ lastBM25.config.normalize /\ lastBM25.config.hasMaxTerms
  /\ Len(lastBM25.vector.values) = 2
  /\ lastBM25.vector.values[1] # lastBM25.vector.values[2]
  /\ LET plain == generate(simpleBM25, lastBM25.text,
                           [lastBM25.config EXCEPT !.normalize = FALSE]).values
     IN  \E i \in 1..Len(plain) : plain[i] = ShiftOf(0)

(***************************************************************************)
(* Claims about errors of the store.                                       *)
(***************************************************************************)

\* The filter a call was given, if any.
GivenFilter ==
  IF lastStore.op = "query" THEN lastStore.filter ELSE FilterOf(lastStore.options)

\* The filter is a text the store does not recognise.
Unparseable(filter) == filter.expr = "raw"

\* What the call that returned last returns without a filter.
UnfilteredResults ==
  IF lastStore.op = "query"
    THEN query(lastStore.collection, EmptyFilter, {"id"}, lastStore.limit)
  ELSE IF lastStore.op = "search"
    THEN searchResults(lastStore.collection, lastStore.queryVector, lastStore.options)
  ELSE hybridSearchResults(lastStore.collection, lastStore.searchRequests,
                           lastStore.options)

\* C21: a query, search or hybrid search of an existing collection with a
\* filter the store cannot parse does not raise and returns what the same
\* call returns without a filter; where the filter is parsed (query and
\* search) a warning is logged.
C21_UnparseableFilterIgnored ==
  (/\ lastStore.op \in {"query", "search", "hybridSearch"}
   /\ lastStore.collection \in DOMAIN dbFiles
   /\ "warned" \in DOMAIN lastStore
   /\ Unparseable(GivenFilter)) =>
     /\ lastStore.ok
     /\ lastStore.results = UnfilteredResults
     /\ lastStore.op # "hybridSearch" => lastStore.warned

\* C22: a search of a codebase whose collection does not exist returns an
\* empty result and no error, also when the collection is missing because the
\* index was cleared.
C22_SearchWithoutCollectionIsEmpty ==
  (lastSearch.op = "semanticSearch" /\ ~lastSearch.existed) =>
     lastSearch.ok /\ lastSearch.results = << >>

\* A codebase was indexed, its index was cleared, and then it was searched.
C22_Witness ==
  /\ lastSearch.op = "semanticSearch" /\ ~lastSearch.existed
  /\ lastStore.op = "dropCollection"
  /\ run.kind = "index" /\ run.log # << >>

\* The last call was an insert or insertHybrid that met a vector of the
\* wrong length.
MismatchThrown(last) ==
  IF last.op \in {"insert", "insertHybrid"} THEN "error" \in DOMAIN last ELSE FALSE

\* What is stored of a collection and what is held of it in memory is the
\* same before and after a step; a collection that was not open is opened.
CollectionUntouched(c) ==
  /\ dbFiles' = dbFiles
  /\ bm25Files' = bm25Files
  /\ c \in DOMAIN metadataCache => metadataCache'[c] = metadataCache[c]
  /\ c \in DOMAIN bm25Generators => bm25Generators'[c] = bm25Generators[c]
  /\ c \notin clients => /\ metadataCache'[c] = dbFiles[c].metadata
                         /\ c \in DOMAIN bm25Generators' =>
                              bm25Generators'[c] =
                                IF c \in DOMAIN bm25Files THEN fromJSON(bm25Files[c])
                                ELSE NewSimpleBM25

\* Some vector of the batch is not of the dimension of the collection.
OtherLength(documents, c) ==
  \E i \in 1..Len(documents) :
     Len(documents[i].vector) # dbFiles[c].metadata.dimension

\* C24: an insert or insertHybrid returns normally only if every vector of
\* its batch has the dimension of the collection; one that meets a vector of
\* another length fails with the dimension-mismatch error, and that step
\* leaves the rows, the metadata and the BM25 model of the collection, on
\* disk and in memory, as they were.
C24_MismatchStoresNothing ==
  /\ [](lastStore.op \in {"insert", "insertHybrid"} =>
          IF lastStore.ok
            THEN ~OtherLength(lastStore.documents, lastStore.collection)
          ELSE "error" \in DOMAIN lastStore =>
                 /\ lastStore.error = "Vector dimension mismatch"
                 /\ OtherLength(lastStore.documents, lastStore.collection))
  /\ [][(MismatchThrown(lastStore') /\ lastStore' # lastStore) =>
           CollectionUntouched(lastStore'.collection)]_vars

\* An insertHybrid whose second document has a vector of the wrong length
\* failed on a collection that holds rows.
C24_Witness ==
  /\ lastStore.op = "insertHybrid" /\ ~lastStore.ok
  /\ "error" \in DOMAIN lastStore
  /\ Len(lastStore.documents) = 2
  /\ Len(lastStore.documents[1].vector) = Dimension
  /\ dbFiles[lastStore.collection].documents # << >>

\* Nothing of the collection is left, on disk or in memory.
NothingLeft(c) ==
  /\ c \notin DOMAIN dbFiles /\ c \notin DOMAIN bm25Files
  /\ c \notin clients
  /\ c \notin DOMAIN metadataCache /\ c \notin DOMAIN bm25Generators

\* The collection has no rows and no trained model, on disk or in memory.
EmptyAndUntrained(c) ==
  /\ dbFiles[c].documents = << >>
  /\ dbFiles[c].metadata.documentCount = 0
  /\ metadataCache[c].documentCount = 0
  /\ c \in DOMAIN bm25Generators => ~bm25Generators[c].trained
  /\ c \notin DOMAIN bm25Files

\* C25: dropCollection always returns normally and leaves nothing of the
\* collection: no rows, no metadata, no open handle, no BM25 model in memory
\* or on disk, and hasCollection answers false; a collection created next
\* under the same name is empty and untrained; a drop of a collection that
\* does not exist changes nothing.
C25_DropRemovesAllState ==
  /\ [](lastStore.op = "dropCollection" =>
          /\ lastStore.ok
          /\ NothingLeft(lastStore.collection)
          /\ ~hasCollection(lastStore.collection))
  /\ [][(/\ lastStore.op = "dropCollection"
         /\ lastStore'.op \in {"createCollection", "createHybridCollection"}
         /\ lastStore'.collection = lastStore.collection) =>
           (EmptyAndUntrained(lastStore.collection))']_vars
  /\ [][(/\ lastStore'.op = "dropCollection" /\ lastStore' # lastStore
         /\ ~lastStore'.existed) =>
           UNCHANGED <<dbFiles, bm25Files, clients, metadataCache,
                       bm25Generators>>]_vars

\* A hybrid collection with rows and a trained model on disk was dropped.
C25_Witness ==
  /\ lastStore.op = "dropCollection"
  /\ lastStore.existed /\ lastStore.rows > 0 /\ lastStore.hadModel

\* The step is an operation on collection c of the Qdrant store.
QdrantOperationOn(c) ==
  /\ lastQdrant' # lastQdrant
  /\ "collection" \in DOMAIN lastQdrant'
  /\ lastQdrant'.collection = c

\* C26: an operation on one collection changes nothing of another one: not
\* its points and not the BM25 model its searches and inserts work with.
C26_CollectionsShareNothing ==
  [][\A c \in QdrantCollectionNames :
       QdrantOperationOn(c) =>
         \A d \in (DOMAIN qdrantCollections) \ {c} :
           /\ d \in DOMAIN qdrantCollections'
           /\ qdrantCollections'[d] = qdrantCollections[d]
           /\ bm25Generator' = bm25Generator]_vars

\* C27: the model file and every read of it hold the whole text of one
\* model, the one before a write or the one after it, never a part of one.
C27_ModelFileNeverPartial ==
  /\ bm25Path.exists => Complete(bm25Path)
  /\ (lastRead.op = "readFile" /\ lastRead.file.exists) => Complete(lastRead.file)

(***************************************************************************)
(* Claims about search_code.                                               *)
(***************************************************************************)

\* C23: a search_code of a codebase that the registry lists as indexing is
\* answered without an error, with the in-progress hint; and a sync sweep
\* leaves every indexing entry where it is, so this holds after a sweep too.
C23_SearchWhileIndexing ==
  /\ (lastSearch.op = "handleSearchCode" /\ lastSearch.indexing) =>
        ~lastSearch.isError /\ lastSearch.hint
  /\ lastReg.op = "syncIndexedCodebasesFromCloud" =>
        indexingCodebases = lastReg.indexing

\* A codebase being indexed was searched after a sweep that found its
\* collection, and chunks were returned.
C23_Witness ==
  /\ lastSearch.op = "handleSearchCode" /\ lastSearch.indexing
  /\ lastReg.op = "syncIndexedCodebasesFromCloud"
  /\ lastSearch.path \in DOMAIN indexingCodebases
  /\ lastSearch.hint /\ lastSearch.results # << >>

(***************************************************************************)
(* Claims about the embedding provider.                                    *)
(***************************************************************************)

\* The request recorded last is of this kind.
Requested(op) == lastEmbed.op = op

\* The provider fails its k-th call, a batch call or not.
ProviderFails(provider, k, batch) ==
  provider.always \/ k <= provider.failFirst \/ (batch /\ provider.batchFails)

\* The wait before the j-th retry, for a base delay.
ExpectedWait(base, j) ==
  IF base * 2 ^ (j - 1) < 10000 THEN base * 2 ^ (j - 1) ELSE 10000

\* The events are calls with the expected wait between each two.
CallsWithBackoff(events, base) ==
  /\ Len(events) % 2 = 1
  /\ \A p \in 1..Len(events) :
       IF p % 2 = 1 THEN events[p].kind = "call"
       ELSE events[p].kind = "sleep" /\ events[p].ms = ExpectedWait(base, p \div 2)

\* C28: an embed makes at most maxRetries + 1 calls of the provider, with a
\* wait of min(baseDelay * 2^attempt, 10 s) before each retry; over a
\* provider that keeps failing with a retryable error it makes exactly that
\* many and fails with an error whose cause is the provider's last error.  An
\* embedBatch makes at most maxRetries + 1 batch calls and at most that many
\* calls per text.
C28_RetriesAreBounded ==
  /\ Requested("embed") =>
       /\ Len(Calls(lastEmbed.events)) <= lastEmbed.maxRetries + 1
       /\ CallsWithBackoff(lastEmbed.events, lastEmbed.baseDelay)
       /\ (/\ lastEmbed.provider.failure = RateLimited
           /\ \A k \in 1..(lastEmbed.maxRetries + 1) :
                ProviderFails(lastEmbed.provider, k, FALSE)) =>
            /\ Len(Calls(lastEmbed.events)) = lastEmbed.maxRetries + 1
            /\ ~lastEmbed.ok
            /\ lastEmbed.error.cause = RateLimited
  /\ Requested("embedBatch") =>
       /\ Len(SelectSeq(lastEmbed.events, LAMBDA e : e.kind = "call" /\ e.batch))
            <= lastEmbed.maxRetries + 1
       /\ \A i \in 1..Len(lastEmbed.texts) :
            Len(SelectSeq(lastEmbed.events,
                          LAMBDA e : e.kind = "call" /\ ~e.batch /\
                            e.contents = <<IF lastEmbed.texts[i] = "" THEN " "
                                           ELSE lastEmbed.texts[i]>>))
              <= lastEmbed.maxRetries + 1
       /\ \A p \in 1..Len(lastEmbed.events) : lastEmbed.events[p].ms <= 10000

\* An embed with the default three retries and a base delay of five seconds
\* made four calls, waited the capped ten seconds and failed.
C28_Witness ==
  /\ Requested("embed")
  /\ lastEmbed.provider.failure = RateLimited /\ lastEmbed.provider.always
  /\ lastEmbed.maxRetries = 3 /\ lastEmbed.baseDelay = 5000
  /\ ~lastEmbed.ok
  /\ Len(Calls(lastEmbed.events)) = 4
  /\ lastEmbed.events[6].ms = 10000

\* C29: a request whose first provider call fails with an error that is not
\* retryable calls the provider once, waits for nothing and fails, embed and
\* embedBatch alike.
C29_NonRetryableErrorCallsOnce ==
  (/\ lastEmbed.op \in {"embed", "embedBatch"}
   /\ lastEmbed.provider.failure = Unauthorized
   /\ ProviderFails(lastEmbed.provider, 1, Requested("embedBatch"))) =>
     /\ ~lastEmbed.ok
     /\ Len(lastEmbed.events) = 1

\* The text the provider is sent for a text.
Sent(text) == IF text = "" THEN " " ELSE text

\* The p-th event is the first call for a single text.
FirstCallFor(events, p) ==
  /\ events[p].kind = "call" /\ ~events[p].batch
  /\ \A q \in 1..(p - 1) :
       ~(events[q].kind = "call" /\ ~events[q].batch
         /\ events[q].contents = events[p].contents)

\* The batch calls of the request all failed.
BatchCallsFailed ==
  \A k \in 1..Len(lastEmbed.events) :
    (lastEmbed.events[k].kind = "call" /\ lastEmbed.events[k].batch) =>
      ProviderFails(lastEmbed.provider,
                    Len(Calls(SubSeq(lastEmbed.events, 1, k))), TRUE)

\* C30: an embedBatch whose batch calls failed goes on with one request per
\* text, in the order of the texts, with a wait of 100 ms before the first
\* call for every text but the first, and fails only after a request for one
\* text has failed; an embedBatch that succeeds returns one vector per text,
\* the i-th being the embedding of the i-th text.
C30_BatchFallbackAndOrder ==
  Requested("embedBatch") =>
    /\ (BatchCallsFailed /\ lastEmbed.texts # << >>) =>
         /\ \E p \in 1..Len(lastEmbed.events) :
              /\ FirstCallFor(lastEmbed.events, p)
              /\ lastEmbed.events[p].contents = <<Sent(lastEmbed.texts[1])>>
              /\ lastEmbed.events[p - 1].kind = "call"
              /\ lastEmbed.events[p - 1].batch
         /\ \A p \in 1..Len(lastEmbed.events) :
              (/\ FirstCallFor(lastEmbed.events, p)
               /\ lastEmbed.events[p].contents # <<Sent(lastEmbed.texts[1])>>) =>
                 /\ lastEmbed.events[p - 1].kind = "sleep"
                 /\ lastEmbed.events[p - 1].ms = 100
         /\ \A i, j \in 1..Len(lastEmbed.texts) :
              \A p, q \in 1..Len(lastEmbed.events) :
                (/\ i < j
                 /\ FirstCallFor(lastEmbed.events, p)
                 /\ FirstCallFor(lastEmbed.events, q)
                 /\ lastEmbed.events[p].contents = <<Sent(lastEmbed.texts[i])>>
                 /\ lastEmbed.events[q].contents = <<Sent(lastEmbed.texts[j])>>) =>
                   p < q
         /\ ~lastEmbed.ok =>
              /\ lastEmbed.error.cause.message = "Gemini embedding failed"
              /\ ~lastEmbed.events[Len(lastEmbed.events)].batch
    /\ lastEmbed.ok =>
         /\ Len(lastEmbed.value) = Len(lastEmbed.texts)
         /\ \A i \in 1..Len(lastEmbed.texts) :
              lastEmbed.value[i].vector = <<Sent(lastEmbed.texts[i])>>

\* An embedBatch of three texts succeeded through the fallback, after all
\* its batch calls had failed.
C30_Witness ==
  /\ Requested("embedBatch")
  /\ Len(lastEmbed.texts) = 3
  /\ lastEmbed.ok
  /\ BatchCallsFailed
  /\ \E p \in 1..Len(lastEmbed.events) :
       lastEmbed.events[p].kind = "sleep" /\ lastEmbed.events[p].ms = 100

(***************************************************************************)
(* Claims about the loading of the HuggingFace model                       *)
(***************************************************************************)

\* The loads of the model in the given state.
LoadsThat(state) == {n \in 1..Len(loadPromises) : loadPromises[n] = state}

\* C31: requests made while the model is not loaded share one load: no two
\* loads are ever in progress together, at most one load ever succeeds, a
\* request that waited and then ran the model waited for that load, and once
\* the model is loaded no request starts another load.
C31_ModelLoadedOnce ==
  /\ Cardinality(LoadsThat("pending")) <= 1
  /\ Cardinality(LoadsThat("fulfilled")) <= 1
  /\ loadedModel <=> LoadsThat("fulfilled") # {}
  /\ loadedModel => LoadsThat("pending") = {}
  /\ \A r \in Requesters :
       /\ (requests[r].pc = "returned" /\ requests[r].awaits # 0)
            => requests[r].awaits \in LoadsThat("fulfilled")
       /\ (requests[r].pc = "returned" /\ requests[r].op # "embedBatch")
            => loadedModel

\* Three embed calls made before the model was loaded have all returned, and
\* all of them waited for the only load there was.
C31_Witness ==
  /\ Len(loadPromises) = 1
  /\ \A r \in Requesters :
       /\ requests[r].pc = "returned"
       /\ requests[r].op = "embed"
       /\ requests[r].awaits = 1

(***************************************************************************)
(* Claims about the initialization of the store                            *)
(***************************************************************************)

\* C32: every operation of the store waits for the initialization the
\* constructor started: an operation that returned did so with the
\* initialization finished and the storage ready, and when the
\* initialization failed the operation is rejected with its error.
C32_OperationsAwaitInitialization ==
  \A c \in Callers :
    /\ operations[c].pc = "returned" =>
         /\ operations[c].initialization = "fulfilled"
         /\ operations[c].ready
    /\ (operations[c].pc \in {"returned", "rejected"}
          /\ initializationPromise = "rejected") =>
         /\ operations[c].pc = "rejected"
         /\ operations[c].error = InitializationError

(***************************************************************************)
(* Claims about the Merkle DAG                                             *)
(***************************************************************************)

\* The nodes whose parents list is empty.
Parentless == {n \in DOMAIN nodes : nodes[n].parents = << >>}

\* C33: addNode(data, parent) with a parent id that is not in the DAG inserts
\* the node, leaves the parents and children of every node as they were (the
\* new node has none), and leaves rootIds as it was.
C33_AbsentParentAddsOrphan ==
  [][(lastAdd'.parent # NoParent /\ lastAdd'.parent \notin DOMAIN nodes) =>
       /\ lastAdd'.id \in DOMAIN nodes'
       /\ nodes'[lastAdd'.id].data = lastAdd'.data
       /\ \A n \in DOMAIN nodes : nodes'[n] = nodes[n]
       /\ lastAdd'.id \notin DOMAIN nodes =>
            /\ nodes'[lastAdd'.id].parents = << >>
            /\ nodes'[lastAdd'.id].children = << >>
       /\ rootIds' = rootIds]_vars

\* A node was added with a parent id of no node: it is there, without
\* parents, and it is no root.
C33_Witness ==
  /\ lastAdd.parent = "non-existent-parent"
  /\ lastAdd.id \in DOMAIN nodes
  /\ nodes[lastAdd.id].parents = << >>
  /\ lastAdd.id \notin Range(rootIds)
  /\ Len(rootIds) > 0

\* C34: the ids in rootIds, and the nodes getRootNodes returns, are the
\* nodes whose parents list is empty.
C34_RootIffNoParents ==
  /\ Range(rootIds) = Parentless
  /\ {getRootNodes[i].id : i \in 1..Len(rootIds)} = Parentless

\* The nodes reached from the nodes of S by following at most k edges from
\* parent to child.
RECURSIVE ReachedFrom(_, _)
ReachedFrom(S, k) ==
  IF k = 0 THEN S
  ELSE ReachedFrom(S \cup {e[2] : e \in {f \in Edges(nodes) : f[1] \in S}}, k - 1)

RawScores(text) ==
  LET tokens == tokenize(simpleBM25, text)
  IN  ScoreTerms(simpleBM25, FirstOccurrences(tokens, {}),
                 calculateTermFrequency(tokens), Len(tokens), NoConfig)

\* The scores, all shifted by -min + epsilon when one of them is not positive.
ShiftedScores(text) ==
  LET raw == RawScores(text)
      shift == IF Len(raw) > 0 /\ MinVal(raw) <= 0
                 THEN 0 - MinVal(raw) + 1 ELSE 0
  IN  [i \in 1..Len(raw) |-> [idx |-> raw[i].idx, val |-> raw[i].val + shift]]

\* C36: generate applies minScore and maxTerms after the positivity shift:
\* the vector returned holds the shifted scores that reach minScore, cut to
\* the maxTerms highest.
C36_FiltersAfterShift ==
  (lastBM25.op = "generate" /\ lastBM25.ok) =>
     LET config == lastBM25.config
         kept == SelectSeq(ShiftedScores(lastBM25.text),
                   LAMBDA e : ~config.hasMinScore \/ e.val >= config.minScore)
         top == IF config.hasMaxTerms /\ Len(kept) > config.maxTerms
                  THEN SubSeq(SortByValDesc(kept), 1, config.maxTerms)
                ELSE kept
         values == [i \in 1..Len(top) |-> top[i].val]
     IN  /\ lastBM25.vector.indices = [i \in 1..Len(top) |-> top[i].idx]
         /\ lastBM25.vector.values =
              IF config.normalize /\ Len(values) > 0
                THEN Normalized(values) ELSE values

(***************************************************************************)
(* Claims about the filter of a hybrid search                              *)
(***************************************************************************)

\* The row satisfies a filter of the form f == 'v' or f in ['v', ...].
Satisfies(row, filter) ==
  row[mapFieldName(filter.field)] \in
    (IF filter.expr = "in" THEN filter.values ELSE {filter.value})

\* C37: every result of a hybrid search that was given a filter expression
\* the store can parse satisfies the filter.
C37_HybridSearchHonoursFilter ==
  (/\ lastStore.op = "hybridSearch" /\ lastStore.ok
   /\ FilterOf(lastStore.options).expr \in {"==", "in"}) =>
     \A i \in 1..Len(lastStore.results) :
        Satisfies(RowOf(dbFiles[lastStore.collection].documents,
                        lastStore.results[i].id),
                  FilterOf(lastStore.options))

(***************************************************************************)
(* Claims about the stored sparse vectors                                  *)
(***************************************************************************)

\* C38: in a hybrid collection every stored sparse vector is the one the
\* current model of the collection generates for the content of its row, for
\* the rows of earlier batches as for those of the last.
C38_StoredSparseIsCurrent ==
  \A c \in DOMAIN bm25Generators \cap DOMAIN dbFiles :
    bm25Generators[c].trained =>
      \A k \in 1..Len(dbFiles[c].documents) :
        dbFiles[c].documents[k].sparse
          = generate(bm25Generators[c], dbFiles[c].documents[k].content, NoConfig)

(***************************************************************************)
(* Claims about the lists of the registry                                  *)
(***************************************************************************)

\* C39: after any sequence of setCodebaseIndexing, setCodebaseIndexed,
\* setCodebaseIndexFailed, removeIndexedCodebase and removeCodebaseCompletely
\* a path is in getIndexingCodebases() exactly when its status is "indexing"
\* and in getIndexedCodebases() exactly when its status is "indexed".
C39_ListsAgreeWithStatus ==
  \A p \in CodebasePaths :
    /\ p \in getIndexingCodebases <=> getCodebaseStatus(p) = "indexing"
    /\ p \in getIndexedCodebases <=> getCodebaseStatus(p) = "indexed"

(***************************************************************************)
(* Claims about the labels of the FAISS index                              *)
(***************************************************************************)

\* The vector was inserted with a chunk of this id: Doc(id, v) carries its
\* id in the first component of its vector.
VectorOfId(vector, id) == vector[1] = id % 3

\* C40: in every collection of the FAISS store the index holds as many
\* vectors as there are stored documents, and the vector with the i-th label
\* is the vector of the i-th stored document.
C40_LabelsMatchDocuments ==
  \A c \in DOMAIN faissCollections :
    /\ Len(faissCollections[c].index) = Len(faissCollections[c].documents)
    /\ \A i \in 1..Len(faissCollections[c].index) :
         i <= Len(faissCollections[c].documents) =>
           VectorOfId(faissCollections[c].index[i],
                      faissCollections[c].documents[i].id)

====
